---- MODULE Spec2Model ----
(***************************************************************************)
(* A model of the chess rules engine of Razorguy12/Chess-Game:             *)
(* Board (src/src/board.cpp), the six piece patterns (src/src/Pieces.cpp), *)
(* SpecialMoves (src/src/SpecialMoves.cpp) and the controller Game         *)
(* (src/src/game.cpp).  Rows are 0..7 from rank 8 down to rank 1, columns  *)
(* 0..7 from file a to file h, as in src/include/Position.h.               *)
(***************************************************************************)
EXTENDS Integers, Sequences, FiniteSets, TLC

(***************************************************************************)
(* Position (src/include/Position.h)                                       *)
(***************************************************************************)
Position(r, c) == [row |-> r, col |-> c]

isValid(pos) == pos.row >= 0 /\ pos.row < 8 /\ pos.col >= 0 /\ pos.col < 8

Rows == 0 .. 7
Cols == 0 .. 7
Squares == { Position(r, c) : r \in Rows, c \in Cols }

Abs(x) == IF x < 0 THEN 0 - x ELSE x

\* F applied to the value of e: e is computed once and held, as a statement's
\* result is held in a local variable
Eval(e, F(_)) == CHOOSE r \in { F(v) : v \in {e} } : TRUE

(***************************************************************************)
(* Color and Piece (src/include/Pieces.h).  nullptr is the record NoPiece. *)
(***************************************************************************)
Colors == {"WHITE", "BLACK"}

Enemy(color) == IF color = "WHITE" THEN "BLACK" ELSE "WHITE"

NoPiece == [type |-> "None", color |-> "NONE", position |-> Position(-1, -1), hasMoved |-> FALSE]

\* setPosition as it would be if it did not record that the piece has moved
setPositionKeepsFlag(p, pos) == [p EXCEPT !.position = pos]

\* Piece::Piece: a freshly constructed piece has hasMoved = false
Piece(type, color, pos) == [type |-> type, color |-> color, position |-> pos, hasMoved |-> FALSE]

\* Piece::setPosition also marks the piece as moved
setPosition(p, pos) == [p EXCEPT !.position = pos, !.hasMoved = TRUE]

setHasMoved(p, moved) == [p EXCEPT !.hasMoved = moved]

(***************************************************************************)
(* Board (src/include/Board.h, src/src/board.cpp).  A board is a record    *)
(* of the square array and the en-passant target and flag.                 *)
(***************************************************************************)
BackRank == <<"Rook", "Knight", "Bishop", "Queen", "King", "Bishop", "Knight", "Rook">>

\* Board::Board followed by Board::initialize
initialize ==
    [squares |-> [r \in Rows |-> [c \in Cols |->
                    CASE r = 0 -> Piece(BackRank[c + 1], "BLACK", Position(r, c))
                      [] r = 1 -> Piece("Pawn", "BLACK", Position(r, c))
                      [] r = 6 -> Piece("Pawn", "WHITE", Position(r, c))
                      [] r = 7 -> Piece(BackRank[c + 1], "WHITE", Position(r, c))
                      [] OTHER -> NoPiece]],
     enPassantTarget |-> Position(0, 0),
     enPassantAvailable |-> FALSE]

\* Board::getPiece(int row, int col)
getPieceRC(b, row, col) ==
    IF row < 0 \/ row >= 8 \/ col < 0 \/ col >= 8 THEN NoPiece ELSE b.squares[row][col]

\* Board::getPiece(const Position&)
getPiece(b, pos) == IF ~isValid(pos) THEN NoPiece ELSE b.squares[pos.row][pos.col]

\* Board::isEmpty(const Position&): an out-of-range position is not empty
isEmpty(b, pos) == IF ~isValid(pos) THEN FALSE ELSE b.squares[pos.row][pos.col] = NoPiece

\* Board::isEmpty(int row, int col): an out-of-range square is empty
isEmptyRC(b, row, col) ==
    IF row < 0 \/ row >= 8 \/ col < 0 \/ col >= 8 THEN TRUE ELSE b.squares[row][col] = NoPiece

\* Board::setPiece
setPiece(b, pos, piece) ==
    IF isValid(pos) THEN [b EXCEPT !.squares[pos.row][pos.col] = piece] ELSE b

\* Board::removePiece: the piece taken out and the board left behind
removePiece(b, pos) ==
    IF ~isValid(pos) THEN [piece |-> NoPiece, board |-> b]
    ELSE [piece |-> b.squares[pos.row][pos.col],
          board |-> [b EXCEPT !.squares[pos.row][pos.col] = NoPiece]]

\* Board::movePiece(const Position&, const Position&)
movePiece(b, from, to) ==
    IF ~isValid(from) \/ ~isValid(to) THEN [ok |-> FALSE, board |-> b]
    ELSE IF isEmpty(b, from) THEN [ok |-> FALSE, board |-> b]
    ELSE LET b1 == IF ~isEmpty(b, to) THEN removePiece(b, to).board ELSE b
             rm == removePiece(b1, from)
         IN  IF rm.piece # NoPiece
             THEN [ok |-> TRUE, board |-> setPiece(rm.board, to, setPosition(rm.piece, to))]
             ELSE [ok |-> FALSE, board |-> rm.board]

Sign(d) == IF d > 0 THEN 1 ELSE IF d < 0 THEN -1 ELSE 0

\* the while loop of Board::isPathClear, from the square (row, col)
RECURSIVE PathWalk(_, _, _, _, _, _)
PathWalk(b, row, col, rowDir, colDir, to) ==
    IF row = to.row /\ col = to.col THEN TRUE
    ELSE IF ~isEmptyRC(b, row, col) THEN FALSE
    ELSE PathWalk(b, row + rowDir, col + colDir, rowDir, colDir, to)

\* Board::isPathClear
isPathClear(b, from, to) ==
    LET rowDir == Sign(to.row - from.row)
        colDir == Sign(to.col - from.col)
    IN  PathWalk(b, from.row + rowDir, from.col + colDir, rowDir, colDir, to)

\* setEnPassantTarget as it would be if it stored the square without the flag
setEnPassantTargetNoFlag(b, pos) == [b EXCEPT !.enPassantTarget = pos]

setEnPassantTarget(b, pos) == [b EXCEPT !.enPassantTarget = pos, !.enPassantAvailable = TRUE]

\* clearEnPassant as it would be if the flag were left set
clearEnPassantKeepsFlag(b) == b

clearEnPassant(b) == [b EXCEPT !.enPassantAvailable = FALSE]

(***************************************************************************)
(* Piece patterns (src/src/Pieces.cpp).  Each reads the piece's stored     *)
(* position, not the square it is found on.                                *)
(***************************************************************************)
\* Pawn::isValidMove as it would be if the double step were open to a pawn
\* that has moved
PawnIsValidMoveMovedDouble(p, to, b) ==
    LET rowDiff == to.row - p.position.row
        colDiff == Abs(to.col - p.position.col)
        direction == IF p.color = "WHITE" THEN -1 ELSE 1
        middle == Position(p.position.row + direction, p.position.col)
    IN  \/ colDiff = 0 /\ rowDiff = direction /\ isEmpty(b, to)
        \/ /\ colDiff = 0 /\ rowDiff = 2 * direction
           /\ isEmpty(b, middle) /\ isEmpty(b, to)
        \/ /\ colDiff = 1 /\ rowDiff = direction
           /\ \/ ~isEmpty(b, to) /\ getPiece(b, to).color # p.color
              \/ b.enPassantAvailable /\ to = b.enPassantTarget

\* Pawn::isValidMove as it would be if the double step ignored the square
\* jumped over
PawnIsValidMoveNoMiddle(p, to, b) ==
    LET rowDiff == to.row - p.position.row
        colDiff == Abs(to.col - p.position.col)
        direction == IF p.color = "WHITE" THEN -1 ELSE 1
    IN  \/ colDiff = 0 /\ rowDiff = direction /\ isEmpty(b, to)
        \/ colDiff = 0 /\ ~p.hasMoved /\ rowDiff = 2 * direction /\ isEmpty(b, to)
        \/ /\ colDiff = 1 /\ rowDiff = direction
           /\ \/ ~isEmpty(b, to) /\ getPiece(b, to).color # p.color
              \/ b.enPassantAvailable /\ to = b.enPassantTarget

PawnIsValidMove(p, to, b) ==
    LET rowDiff == to.row - p.position.row
        colDiff == Abs(to.col - p.position.col)
        direction == IF p.color = "WHITE" THEN -1 ELSE 1
        middle == Position(p.position.row + direction, p.position.col)
    IN  \/ colDiff = 0 /\ rowDiff = direction /\ isEmpty(b, to)
        \/ /\ colDiff = 0 /\ ~p.hasMoved /\ rowDiff = 2 * direction
           /\ isEmpty(b, middle) /\ isEmpty(b, to)
        \/ /\ colDiff = 1 /\ rowDiff = direction
           /\ \/ ~isEmpty(b, to) /\ getPiece(b, to).color # p.color
              \/ b.enPassantAvailable /\ to = b.enPassantTarget

RookIsValidMove(p, to, b) ==
    /\ p.position # to
    /\ ~(p.position.row # to.row /\ p.position.col # to.col)
    /\ isPathClear(b, p.position, to)
    /\ ~(~isEmpty(b, to) /\ getPiece(b, to).color = p.color)

\* Knight::isValidMove as it would be without the test of the target's colour
KnightIsValidMoveAnyTarget(p, to, b) ==
    {Abs(to.row - p.position.row), Abs(to.col - p.position.col)} = {1, 2}

KnightIsValidMove(p, to, b) ==
    LET rowDiff == Abs(to.row - p.position.row)
        colDiff == Abs(to.col - p.position.col)
    IN  /\ (rowDiff = 2 /\ colDiff = 1) \/ (rowDiff = 1 /\ colDiff = 2)
        /\ ~(~isEmpty(b, to) /\ getPiece(b, to).color = p.color)

BishopIsValidMove(p, to, b) ==
    LET rowDiff == Abs(to.row - p.position.row)
        colDiff == Abs(to.col - p.position.col)
    IN  /\ p.position # to
        /\ rowDiff = colDiff
        /\ isPathClear(b, p.position, to)
        /\ ~(~isEmpty(b, to) /\ getPiece(b, to).color = p.color)

\* Queen::isValidMove as it would be with the straight lines only
QueenIsValidMoveStraightOnly(p, to, b) ==
    /\ p.position # to
    /\ ~(p.position.row # to.row /\ p.position.col # to.col)
    /\ isPathClear(b, p.position, to)
    /\ ~(~isEmpty(b, to) /\ getPiece(b, to).color = p.color)

QueenIsValidMove(p, to, b) ==
    LET rowDiff == Abs(to.row - p.position.row)
        colDiff == Abs(to.col - p.position.col)
    IN  /\ p.position # to
        /\ ~(rowDiff # colDiff /\ p.position.row # to.row /\ p.position.col # to.col)
        /\ isPathClear(b, p.position, to)
        /\ ~(~isEmpty(b, to) /\ getPiece(b, to).color = p.color)

\* King::isValidMove as it would be if two files sideways were allowed
KingIsValidMoveTwoFiles(p, to, b) ==
    LET rowDiff == Abs(to.row - p.position.row)
        colDiff == Abs(to.col - p.position.col)
    IN  /\ ~(rowDiff > 1 \/ colDiff > 2)
        /\ ~(rowDiff = 0 /\ colDiff = 0)
        /\ ~(~isEmpty(b, to) /\ getPiece(b, to).color = p.color)

KingIsValidMove(p, to, b) ==
    LET rowDiff == Abs(to.row - p.position.row)
        colDiff == Abs(to.col - p.position.col)
    IN  /\ ~(rowDiff > 1 \/ colDiff > 1)
        /\ ~(rowDiff = 0 /\ colDiff = 0)
        /\ ~(~isEmpty(b, to) /\ getPiece(b, to).color = p.color)

\* the virtual call piece->isValidMove(to, board)
isValidMove(p, to, b) ==
    CASE p.type = "Pawn"   -> PawnIsValidMove(p, to, b)
      [] p.type = "Rook"   -> RookIsValidMove(p, to, b)
      [] p.type = "Knight" -> KnightIsValidMove(p, to, b)
      [] p.type = "Bishop" -> BishopIsValidMove(p, to, b)
      [] p.type = "Queen"  -> QueenIsValidMove(p, to, b)
      [] p.type = "King"   -> KingIsValidMove(p, to, b)
      [] OTHER -> FALSE

(***************************************************************************)
(* Attack and check detection (src/src/board.cpp)                          *)
(***************************************************************************)
\* Board::isUnderAttack
isUnderAttack(b, pos, byColor) ==
    \E i \in Rows, j \in Cols :
        LET piece == getPieceRC(b, i, j)
        IN  piece # NoPiece /\ piece.color = byColor /\ isValidMove(piece, pos, b)

\* the least element of a non-empty set of integers
Min(S) == CHOOSE x \in S : \A y \in S : x <= y

\* Board::getKingPosition: the first king of the colour in row-major order,
\* squares numbered k = 8*i + j
getKingPosition(b, color) ==
    Eval({ k \in 0 .. 63 :
             LET piece == getPieceRC(b, k \div 8, k % 8)
             IN  piece # NoPiece /\ piece.color = color /\ piece.type = "King" },
         LAMBDA kings :
             IF kings = {} THEN Position(-1, -1)
             ELSE Eval(Min(kings), LAMBDA k : Position(k \div 8, k % 8)))

\* isInCheck as it would be if a missing king counted as a king in check
isInCheckNoKingInCheck(b, color) ==
    LET kingPos == getKingPosition(b, color)
    IN  IF ~isValid(kingPos) THEN TRUE ELSE isUnderAttack(b, kingPos, Enemy(color))

\* Board::isInCheck
isInCheck(b, color) ==
    Eval(getKingPosition(b, color),
         LAMBDA kingPos :
             IF ~isValid(kingPos) THEN FALSE ELSE isUnderAttack(b, kingPos, Enemy(color)))

\* wouldBeInCheck as it would be without the setHasMoved call of the undo
wouldBeInCheckKeepsMoved(b, from, to, color) ==
    IF ~isValid(from) \/ ~isValid(to) THEN [ret |-> TRUE, board |-> b]
    ELSE IF isEmpty(b, from) THEN [ret |-> TRUE, board |-> b]
    ELSE LET tempMoving == removePiece(b, from)
             tempCaptured == removePiece(tempMoving.board, to)
             simulated == setPiece(tempCaptured.board, to, setPosition(tempMoving.piece, to))
             restore == removePiece(simulated, to)
             undone == setPiece(restore.board, from, setPosition(restore.piece, from))
         IN  [ret |-> isInCheck(simulated, color),
              board |-> IF tempCaptured.piece # NoPiece
                        THEN setPiece(undone, to, tempCaptured.piece)
                        ELSE undone]

\* wouldBeInCheck as it would be if it returned before undoing a move found
\* to leave the king in check
wouldBeInCheckNoUndoInCheck(b, from, to, color) ==
    IF ~isValid(from) \/ ~isValid(to) THEN [ret |-> TRUE, board |-> b]
    ELSE IF isEmpty(b, from) THEN [ret |-> TRUE, board |-> b]
    ELSE LET movingPieceHadMoved == getPiece(b, from).hasMoved
             tempMoving == removePiece(b, from)
             tempCaptured == removePiece(tempMoving.board, to)
             simulated == setPiece(tempCaptured.board, to, setPosition(tempMoving.piece, to))
             inCheck == isInCheck(simulated, color)
             restore == removePiece(simulated, to)
             undone == setPiece(restore.board, from,
                                setHasMoved(setPosition(restore.piece, from), movingPieceHadMoved))
         IN  IF inCheck THEN [ret |-> TRUE, board |-> simulated]
             ELSE [ret |-> FALSE,
                   board |-> IF tempCaptured.piece # NoPiece
                             THEN setPiece(undone, to, tempCaptured.piece)
                             ELSE undone]

\* Board::wouldBeInCheck: the value returned and the board left behind
wouldBeInCheck(b, from, to, color) ==
    IF ~isValid(from) \/ ~isValid(to) THEN [ret |-> TRUE, board |-> b]
    ELSE IF isEmpty(b, from) THEN [ret |-> TRUE, board |-> b]
    ELSE LET movingPieceHadMoved == getPiece(b, from).hasMoved
             tempMoving == removePiece(b, from)
             tempCaptured == removePiece(tempMoving.board, to)
         IN  Eval(setPiece(tempCaptured.board, to, setPosition(tempMoving.piece, to)),
                  LAMBDA simulated :
                      LET inCheck == isInCheck(simulated, color)
                          restore == removePiece(simulated, to)
                          undone == setPiece(restore.board, from,
                                             setHasMoved(setPosition(restore.piece, from),
                                                         movingPieceHadMoved))
                      IN  [ret |-> inCheck,
                           board |-> IF tempCaptured.piece # NoPiece
                                     THEN setPiece(undone, to, tempCaptured.piece)
                                     ELSE undone])

(***************************************************************************)
(* SpecialMoves (src/src/SpecialMoves.cpp)                                 *)
(***************************************************************************)
HomeRow(color) == IF color = "WHITE" THEN 7 ELSE 0

\* canCastleKingSide as it would be without the three isUnderAttack tests
canCastleKingSideNoAttackTest(color, b) ==
    LET row == HomeRow(color)
        king == getPieceRC(b, row, 4)
        rook == getPieceRC(b, row, 7)
    IN  /\ king # NoPiece /\ rook # NoPiece
        /\ ~(king.hasMoved \/ rook.hasMoved)
        /\ king.type = "King" /\ rook.type = "Rook"
        /\ isEmptyRC(b, row, 5) /\ isEmptyRC(b, row, 6)

canCastleKingSide(color, b) ==
    LET row == HomeRow(color)
        king == getPieceRC(b, row, 4)
        rook == getPieceRC(b, row, 7)
        enemyColor == Enemy(color)
    IN  /\ king # NoPiece /\ rook # NoPiece
        /\ ~(king.hasMoved \/ rook.hasMoved)
        /\ king.type = "King" /\ rook.type = "Rook"
        /\ isEmptyRC(b, row, 5) /\ isEmptyRC(b, row, 6)
        /\ ~isUnderAttack(b, Position(row, 4), enemyColor)
        /\ ~isUnderAttack(b, Position(row, 5), enemyColor)
        /\ ~isUnderAttack(b, Position(row, 6), enemyColor)

canCastleQueenSide(color, b) ==
    LET row == HomeRow(color)
        king == getPieceRC(b, row, 4)
        rook == getPieceRC(b, row, 0)
        enemyColor == Enemy(color)
    IN  /\ king # NoPiece /\ rook # NoPiece
        /\ ~(king.hasMoved \/ rook.hasMoved)
        /\ king.type = "King" /\ rook.type = "Rook"
        /\ isEmptyRC(b, row, 1) /\ isEmptyRC(b, row, 2) /\ isEmptyRC(b, row, 3)
        /\ ~isUnderAttack(b, Position(row, 4), enemyColor)
        /\ ~isUnderAttack(b, Position(row, 3), enemyColor)
        /\ ~isUnderAttack(b, Position(row, 2), enemyColor)

\* Relocate as it would be without the setPosition call
RelocateKeepsPosition(b, from, to) ==
    LET rm == removePiece(b, from)
    IN  setPiece(rm.board, to, rm.piece)

\* one removePiece / setPosition / setPiece triple of performCastling
Relocate(b, from, to) ==
    LET rm == removePiece(b, from)
    IN  setPiece(rm.board, to, setPosition(rm.piece, to))

\* performCastling as it would be if only the king were relocated
performCastlingKingOnly(color, kingSide, b) ==
    Relocate(b, Position(HomeRow(color), 4), Position(HomeRow(color), IF kingSide THEN 6 ELSE 2))

performCastling(color, kingSide, b) ==
    LET row == HomeRow(color)
    IN  IF kingSide
        THEN Relocate(Relocate(b, Position(row, 4), Position(row, 6)),
                      Position(row, 7), Position(row, 5))
        ELSE Relocate(Relocate(b, Position(row, 4), Position(row, 2)),
                      Position(row, 0), Position(row, 3))

\* character codes of the letters in the switch of promotePawn
ChQ == 81
ChLowerQ == 113
ChR == 82
ChLowerR == 114
ChB == 66
ChLowerB == 98
ChN == 78
ChLowerN == 110

\* promotePawn as it would be if the switch had no lower-case labels
promotePawnUpperOnly(pos, choice, b) ==
    LET piece == getPiece(b, pos)
    IN  IF piece = NoPiece \/ piece.type # "Pawn" THEN b
        ELSE LET type == CASE choice = ChR -> "Rook"
                           [] choice = ChB -> "Bishop"
                           [] choice = ChN -> "Knight"
                           [] OTHER -> "Queen"
             IN  setPiece(removePiece(b, pos).board, pos, Piece(type, piece.color, pos))

promotePawn(pos, choice, b) ==
    LET piece == getPiece(b, pos)
    IN  IF piece = NoPiece \/ piece.type # "Pawn" THEN b
        ELSE LET color == piece.color
                 removed == removePiece(b, pos).board
                 type == CASE choice \in {ChQ, ChLowerQ} -> "Queen"
                           [] choice \in {ChR, ChLowerR} -> "Rook"
                           [] choice \in {ChB, ChLowerB} -> "Bishop"
                           [] choice \in {ChN, ChLowerN} -> "Knight"
                           [] OTHER -> "Queen"
             IN  setPiece(removed, pos, Piece(type, color, pos))

isEnPassantMove(from, to, b) ==
    LET piece == getPiece(b, from)
    IN  /\ ~(piece = NoPiece \/ piece.type # "Pawn")
        /\ b.enPassantAvailable
        /\ to = b.enPassantTarget

\* performEnPassant as it would be if the passed pawn were left on the board
performEnPassantNoRemoval(from, to, b) ==
    LET pawn == removePiece(b, from)
    IN  setPiece(pawn.board, to, setPosition(pawn.piece, to))

performEnPassant(from, to, b) ==
    LET pawn == removePiece(b, from)
        color == pawn.piece.color
        capturedRow == IF color = "WHITE" THEN to.row + 1 ELSE to.row - 1
        removed == removePiece(pawn.board, Position(capturedRow, to.col)).board
    IN  setPiece(removed, to, setPosition(pawn.piece, to))

(***************************************************************************)
(* Notation (Game::parsePosition, src/src/game.cpp).  A string is a        *)
(* sequence of character codes.                                            *)
(***************************************************************************)
ChLowerA == 97
ChLowerH == 104
ChUpperA == 65
ChUpperZ == 90
ChDigit0 == 48
ChDigit1 == 49
ChDigit8 == 56

\* std::tolower in the "C" locale
tolower(ch) == IF ch >= ChUpperA /\ ch <= ChUpperZ THEN ch + (ChLowerA - ChUpperA) ELSE ch

\* parsePosition as it would be if the rank digit were taken as the row
parsePositionRankAsIs(pos) ==
    IF Len(pos) # 2 THEN Position(-1, -1)
    ELSE LET col == tolower(pos[1])
             row == pos[2]
         IN  IF col < ChLowerA \/ col > ChLowerH \/ row < ChDigit1 \/ row > ChDigit8
             THEN Position(-1, -1)
             ELSE Position(row - ChDigit1, col - ChLowerA)

\* parsePosition as it would be without std::tolower
parsePositionLowerOnly(pos) ==
    IF Len(pos) # 2 THEN Position(-1, -1)
    ELSE LET col == pos[1]
             row == pos[2]
         IN  IF col < ChLowerA \/ col > ChLowerH \/ row < ChDigit1 \/ row > ChDigit8
             THEN Position(-1, -1)
             ELSE Position(8 - (row - ChDigit0), col - ChLowerA)

parsePosition(pos) ==
    IF Len(pos) # 2 THEN Position(-1, -1)
    ELSE LET col == tolower(pos[1])
             row == pos[2]
         IN  IF col < ChLowerA \/ col > ChLowerH \/ row < ChDigit1 \/ row > ChDigit8
             THEN Position(-1, -1)
             ELSE Position(8 - (row - ChDigit0), col - ChLowerA)

\* operator<<(std::ostream&, const Position&): file letter, then rank digit
Algebraic(pos) == <<ChLowerA + pos.col, ChDigit0 + (8 - pos.row)>>

(***************************************************************************)
(* Game (src/include/Game.h, src/src/game.cpp).  A game is a record        *)
(* [board, currentPlayer, gameOver, winner, capturedPieceValue, isInCheck, *)
(* name]; the two players are identified by their colour, and name holds   *)
(* the name of each.                                                       *)
(***************************************************************************)
\* the names of the two players as Game::Game constructs them, which are also
\* the names Game::start puts in place of an empty line
DefaultName(color) == IF color = "WHITE" THEN "White" ELSE "Black"

\* Player::getName of the player of the colour
getName(g, color) == g.name[color]

NoWinner == ""

\* Game::Game
NewGame ==
    [board |-> initialize,
     currentPlayer |-> "WHITE",
     gameOver |-> FALSE,
     winner |-> NoWinner,
     capturedPieceValue |-> [c \in Colors |-> 0],
     isInCheck |-> [c \in Colors |-> FALSE],
     name |-> [c \in Colors |-> DefaultName(c)]]

\* the head of Game::start: the two lines read at the name prompts, an empty
\* line standing for the default name, are given to the players by setName
startNames(g, whiteName, blackName) ==
    [g EXCEPT !.name = [c \in Colors |->
                           IF c = "WHITE"
                           THEN IF whiteName = "" THEN DefaultName("WHITE") ELSE whiteName
                           ELSE IF blackName = "" THEN DefaultName("BLACK") ELSE blackName]]

\* switchPlayer as it would be if it always selected the white player
switchPlayerToWhite(g) == [g EXCEPT !.currentPlayer = "WHITE"]

switchPlayer(g) == [g EXCEPT !.currentPlayer = Enemy(g.currentPlayer)]

\* the inner loops of Game::hasValidMoves over targets u = 8*ti + tj, resumed at
\* target t: the next target that passes isValidMove is tried with wouldBeInCheck
RECURSIVE TargetScan(_, _, _, _)
TargetScan(b, from, color, t) ==
    Eval({ u \in t .. 63 : isValidMove(getPiece(b, from), Position(u \div 8, u % 8), b) },
         LAMBDA valid :
             IF valid = {} THEN [ret |-> FALSE, board |-> b]
             ELSE Eval(Min(valid), LAMBDA u :
                  Eval(wouldBeInCheck(b, from, Position(u \div 8, u % 8), color), LAMBDA w :
                       IF ~w.ret THEN [ret |-> TRUE, board |-> w.board]
                       ELSE TargetScan(w.board, from, color, u + 1))))

\* the outer loops of Game::hasValidMoves over squares j = 8*i + j', resumed at
\* square k: the next square holding a piece of the colour is scanned
RECURSIVE PieceScan(_, _, _)
PieceScan(b, color, k) ==
    Eval({ j \in k .. 63 :
             LET piece == getPieceRC(b, j \div 8, j % 8)
             IN  piece # NoPiece /\ piece.color = color },
         LAMBDA own :
             IF own = {} THEN [ret |-> FALSE, board |-> b]
             ELSE Eval(Min(own), LAMBDA j :
                  Eval(TargetScan(b, Position(j \div 8, j % 8), color, 0), LAMBDA s :
                       IF s.ret THEN s ELSE PieceScan(s.board, color, j + 1))))

\* hasValidMoves as it would be if it gave up after the first piece of the colour
hasValidMovesFirstPieceOnly(b, color) ==
    LET own == { j \in 0 .. 63 : getPieceRC(b, j \div 8, j % 8).color = color }
    IN  IF own = {} THEN [ret |-> FALSE, board |-> b]
        ELSE TargetScan(b, Position(Min(own) \div 8, Min(own) % 8), color, 0)

\* Game::hasValidMoves: the value returned and the board left behind
hasValidMoves(b, color) == PieceScan(b, color, 0)

\* checkGameStatus as it would be if it named the mated player as the winner
checkGameStatusWinnerMated(g) ==
    LET color == g.currentPlayer
        inCheck == isInCheck(g.board, color)
        hv == hasValidMoves(g.board, color)
        g1 == [g EXCEPT !.isInCheck[color] = inCheck, !.board = hv.board]
    IN  IF ~hv.ret
        THEN [g1 EXCEPT !.gameOver = TRUE,
                        !.winner = IF inCheck THEN getName(g, color) ELSE g.winner]
        ELSE g1

\* checkGameStatus as it would be if it recorded the winner of a mate without
\* ending the game
checkGameStatusWinnerOnly(g) ==
    LET color == g.currentPlayer
        inCheck == isInCheck(g.board, color)
        hv == hasValidMoves(g.board, color)
        g1 == [g EXCEPT !.isInCheck[color] = inCheck, !.board = hv.board]
    IN  IF ~hv.ret
        THEN [g1 EXCEPT !.winner = IF inCheck THEN getName(g, Enemy(color)) ELSE g.winner]
        ELSE g1

\* Game::checkGameStatus
checkGameStatus(g) ==
    LET color == g.currentPlayer
    IN  Eval(isInCheck(g.board, color), LAMBDA inCheck :
        Eval(hasValidMoves(g.board, color), LAMBDA hv :
             LET g1 == [g EXCEPT !.isInCheck[color] = inCheck, !.board = hv.board]
             IN  IF ~hv.ret
                 THEN [g1 EXCEPT !.gameOver = TRUE,
                                 !.winner = IF inCheck THEN getName(g, Enemy(color))
                                            ELSE g.winner]
                 ELSE g1))

\* the value table of Game::makeMove for a captured piece
PieceValue(type) ==
    CASE type = "Pawn" -> 1
      [] type \in {"Knight", "Bishop"} -> 3
      [] type = "Rook" -> 5
      [] type = "Queen" -> 9
      [] OTHER -> 0

\* the promotion test of Game::makeMove after the move
ReachedLastRank(b, toPos) ==
    LET piece == getPiece(b, toPos)
    IN  /\ piece # NoPiece /\ piece.type = "Pawn"
        /\ \/ piece.color = "WHITE" /\ toPos.row = 0
           \/ piece.color = "BLACK" /\ toPos.row = 7

\* Game::makeMove: result is "true" or "false" for the value returned, or the
\* message of the exception thrown; choice is the letter handlePromotion reads
makeMove(g, from, to, choice) ==
    LET fromPos == parsePosition(from)
        toPos == parsePosition(to)
        piece == getPiece(g.board, fromPos)
        color == g.currentPlayer
    IN  IF ~isValid(fromPos) \/ ~isValid(toPos) THEN [result |-> "false", game |-> g]
        ELSE IF piece = NoPiece THEN [result |-> "No piece at that position!", game |-> g]
        ELSE IF piece.color # color THEN [result |-> "That's not your piece!", game |-> g]
        ELSE IF ~isValidMove(piece, toPos, g.board) THEN [result |-> "false", game |-> g]
        ELSE Eval(wouldBeInCheck(g.board, fromPos, toPos, color), LAMBDA w :
             LET g1 == [g EXCEPT !.board = w.board]
             IN  IF w.ret THEN [result |-> "Move would leave king in check!", game |-> g1]
                 ELSE
                 LET capturedPiece == getPiece(g1.board, toPos)
                     g2 == IF capturedPiece # NoPiece /\ capturedPiece.color # color
                           THEN [g1 EXCEPT !.capturedPieceValue[color] =
                                              @ + PieceValue(capturedPiece.type)]
                           ELSE g1
                     isEnPassant == isEnPassantMove(fromPos, toPos, g2.board)
                     isPawnDoubleMove == /\ piece.type = "Pawn"
                                         /\ Abs(toPos.row - fromPos.row) = 2
                     cleared == clearEnPassant(g2.board)
                     mv == IF isEnPassant
                           THEN [ok |-> TRUE, board |-> performEnPassant(fromPos, toPos, cleared)]
                           ELSE movePiece(cleared, fromPos, toPos)
                     midRow == (fromPos.row + toPos.row) \div 2
                     marked == IF isPawnDoubleMove
                               THEN setEnPassantTarget(mv.board, Position(midRow, fromPos.col))
                               ELSE mv.board
                     promoted == IF ReachedLastRank(marked, toPos)
                                 THEN promotePawn(toPos, choice, marked)
                                 ELSE marked
                 IN  IF ~mv.ok THEN [result |-> "false", game |-> [g2 EXCEPT !.board = mv.board]]
                     ELSE [result |-> "true",
                           game |-> Eval(switchPlayer([g2 EXCEPT !.board = promoted]),
                                         checkGameStatus)])

\* Game::handleCastling
handleCastling(g, command) ==
    LET kingSide == (command = "kingside")
        color == g.currentPlayer
    IN  IF kingSide /\ ~canCastleKingSide(color, g.board)
        THEN [result |-> "Cannot castle kingside!", game |-> g]
        ELSE IF ~kingSide /\ ~canCastleQueenSide(color, g.board)
        THEN [result |-> "Cannot castle queenside!", game |-> g]
        ELSE LET castled == performCastling(color, kingSide, g.board)
             IN  [result |-> "true",
                  game |-> Eval(switchPlayer([g EXCEPT !.board = clearEnPassant(castled)]),
                                checkGameStatus)]

(***************************************************************************)
(* Input of the console loop.  Moves are typed as two algebraic strings.   *)
(***************************************************************************)
FileCode == [f \in {"a", "b", "c", "d", "e", "f", "g", "h"} |->
               CASE f = "a" -> 97 [] f = "b" -> 98 [] f = "c" -> 99 [] f = "d" -> 100
                 [] f = "e" -> 101 [] f = "f" -> 102 [] f = "g" -> 103 [] f = "h" -> 104]

\* the string for a square, e.g. Sq("e", 2) is "e2"
Sq(file, rank) == <<FileCode[file], ChDigit0 + rank>>

\* the two strings of a move, e.g. Mv("e", 2, "e", 4) is "e2" "e4"
Mv(f1, r1, f2, r2) == <<Sq(f1, r1), Sq(f2, r2)>>

\* the castling tokens recognised by Game::playTurn
KingSideTokens == { <<79, 45, 79>>, <<48, 45, 48>>, <<111, 45, 111>> }
QueenSideTokens == { <<79, 45, 79, 45, 79>>, <<48, 45, 48, 45, 48>>, <<111, 45, 111, 45, 111>> }

\* the words that open the resignation dialogue: "quit", "exit", "q"
QuitTokens == { <<113, 117, 105, 116>>, <<101, 120, 105, 116>>, <<113>> }

\* letters typed at the promotion prompt: Q, n, r, B and an unrecognised X
PromotionLetters == { ChQ, ChLowerN, ChLowerR, ChB, 88 }

\* ill-formed or unusual notations: "e9", "i2", "e", "e2e4", "", "E2"
OddStrings == { <<101, 57>>, <<105, 50>>, <<101>>, <<101, 50, 101, 52>>, <<>>, <<69, 50>> }

\* Fool's mate: 1.f3 e5 2.g4 Qh4#
BookFoolsMate ==
    { Mv("f", 2, "f", 3), Mv("e", 7, "e", 5), Mv("g", 2, "g", 4), Mv("d", 8, "h", 4) }

\* 1.e4 h5 2.e5 Rh6 3.Ke2 Rg6 4.Kd3 Rg5 5.Kc4 h4 6.Kb5 d5 7.exd6 Rxb5
BookEnPassantRank ==
    { Mv("e", 2, "e", 4), Mv("e", 4, "e", 5), Mv("e", 1, "e", 2), Mv("e", 2, "d", 3),
      Mv("d", 3, "c", 4), Mv("c", 4, "b", 5), Mv("e", 5, "d", 6),
      Mv("h", 7, "h", 5), Mv("h", 8, "h", 6), Mv("h", 6, "g", 6), Mv("g", 6, "g", 5),
      Mv("h", 5, "h", 4), Mv("d", 7, "d", 5), Mv("g", 5, "b", 5) }

\* 1.h4 g5 2.Nf3 gxh4 3.e3 h3 4.Be2 h2 5.O-O hxg1
BookCastle ==
    { Mv("h", 2, "h", 4), Mv("g", 1, "f", 3), Mv("e", 2, "e", 3), Mv("f", 1, "e", 2),
      Mv("g", 7, "g", 5), Mv("g", 5, "h", 4), Mv("h", 4, "h", 3), Mv("h", 3, "h", 2),
      Mv("h", 2, "g", 1) }

\* 1.f3 d6 2.Kf2 Qd7 3.Kg3 Qc6 4.h4 Qd5 5.h5 Qe6 6.Kh4 Qf5 7.g3 g5+, after
\* which 8.hxg6 e.p. is White's only way out of check
BookEnPassantEscape ==
    { Mv("f", 2, "f", 3), Mv("e", 1, "f", 2), Mv("f", 2, "g", 3), Mv("h", 2, "h", 4),
      Mv("h", 4, "h", 5), Mv("g", 3, "h", 4), Mv("g", 2, "g", 3), Mv("h", 5, "g", 6),
      Mv("d", 7, "d", 6), Mv("d", 8, "d", 7), Mv("d", 7, "c", 6), Mv("c", 6, "d", 5),
      Mv("d", 5, "e", 6), Mv("e", 6, "f", 5), Mv("g", 7, "g", 5) }

\* both sides clear a wing and castle, or shuffle a king or a rook first:
\* 1.Nf3 Nc6 2.e3 d6 3.Be2 Be6 4.O-O Qd7 5.h3 O-O-O, with Kf1, Ke1 and Rg1, Rh1,
\* and the king's castling step typed as the move e1 g1
BookCastleRights ==
    { Mv("e", 1, "g", 1), Mv("g", 1, "f", 3), Mv("e", 2, "e", 3), Mv("f", 1, "e", 2), Mv("h", 2, "h", 3),
      Mv("e", 1, "f", 1), Mv("f", 1, "e", 1), Mv("h", 1, "g", 1), Mv("g", 1, "h", 1),
      Mv("b", 8, "c", 6), Mv("d", 7, "d", 6), Mv("c", 8, "e", 6), Mv("d", 8, "d", 7) }

\* a black pawn is promoted on White's kingside corner while White's king has
\* not moved and f1, g1 are empty: 1.Nf3 h5 2.e3 h4 3.Be2 h3 4.a3 hxg2 5.a4 gxh1,
\* and a double step a3 a5 typed for the pawn that has moved
BookCornerRook ==
    { Mv("g", 1, "f", 3), Mv("e", 2, "e", 3), Mv("f", 1, "e", 2), Mv("a", 2, "a", 3),
      Mv("a", 3, "a", 4), Mv("a", 3, "a", 5),
      Mv("h", 7, "h", 5), Mv("h", 5, "h", 4), Mv("h", 4, "h", 3), Mv("h", 3, "g", 2),
      Mv("g", 2, "h", 1) }

\* Black is mated with king and rook unmoved and nothing between them:
\* 1.e4 e5 2.Bc4 Bc5 3.Qh5 Nf6 4.Qxf7
BookScholarsMate ==
    { Mv("e", 2, "e", 4), Mv("f", 1, "c", 4), Mv("d", 1, "h", 5), Mv("h", 5, "f", 7),
      Mv("e", 7, "e", 5), Mv("f", 8, "c", 5), Mv("g", 8, "f", 6) }

\* every square of the files d and e as a target, with the home squares of
\* the four pawns of these files as sources: the pawns only advance, so a game
\* that follows the book ends by itself
FreeSquares == { sq \in Squares : sq.col \in {3, 4} }
FreeSources == { sq \in FreeSquares : sq.row \in {1, 6} }
BookFree == { <<Algebraic(f), Algebraic(t)>> : f \in FreeSources, t \in FreeSquares }

Books == <<BookFree, BookFoolsMate, BookEnPassantRank, BookCastle, BookEnPassantEscape,
           BookCastleRights, BookCornerRook, BookScholarsMate>>

\* what may be typed as a move in a game that follows book bk
MoveInputs(bk) ==
    Books[bk] \cup { <<s, Sq("e", 4)>> : s \in OddStrings }
              \cup { <<Sq("e", 2), s>> : s \in OddStrings }

CastleInputs == KingSideTokens \cup QueenSideTokens

\* answers to the menu of the quit dialogue: "1", "2", "3" and an unlisted "4"
MenuChoices == { <<49>>, <<50>>, <<51>>, <<52>> }

\* answers to a draw offer: "y", "Y", "yes", "n", "no"
DrawResponses == { <<121>>, <<89>>, <<121, 101, 115>>, <<110>>, <<110, 111>> }

\* the quit words are typed only in games that follow BookFree
QuitInputs(bk) == IF Books[bk] = BookFree THEN QuitTokens ELSE {}

\* the two lines typed at the name prompts of Game::start: both left empty,
\* both typed, only White's typed, and the names of the colours typed crosswise
NamePairs == { <<"", "">>, <<"Alice", "Bob">>, <<"Alice", "">>, <<"Black", "White">> }

\* names are typed only in games that follow BookFree or one of the two mates;
\* in the other games both lines are left empty
NameInputs(bk) ==
    IF Books[bk] \in { BookFree, BookFoolsMate, BookScholarsMate }
    THEN NamePairs ELSE { <<"", "">> }

(***************************************************************************)
(* The state machine: one game driven by Game::start, which reads the two  *)
(* names and then loops over Game::playTurn.  started tells that the names *)
(* have been read, lastPly remembers the last ply that was accepted, plies *)
(* counts them, untouched holds the home squares of kings and rooks that   *)
(* no accepted ply has left or reached.                                    *)
(***************************************************************************)
VARIABLES board, currentPlayer, gameOver, winner, capturedPieceValue, playerInCheck,
          playerName, started, lastPly, book, plies, untouched, notation

vars == <<board, currentPlayer, gameOver, winner, capturedPieceValue, playerInCheck,
          playerName, started, lastPly, book, plies, untouched, notation>>

\* the Game object as a record
Game ==
    [board |-> board, currentPlayer |-> currentPlayer, gameOver |-> gameOver,
     winner |-> winner, capturedPieceValue |-> capturedPieceValue,
     isInCheck |-> playerInCheck, name |-> playerName]

\* assignment of a Game record to the variables
GameBecomes(g) ==
    /\ board' = g.board
    /\ currentPlayer' = g.currentPlayer
    /\ gameOver' = g.gameOver
    /\ winner' = g.winner
    /\ capturedPieceValue' = g.capturedPieceValue
    /\ playerInCheck' = g.isInCheck
    /\ playerName' = g.name

\* the squares on which kings and rooks start
CastlingHomes == { Position(r, c) : r \in {0, 7}, c \in {0, 4, 7} }

NoPly == [op |-> "none", from |-> Position(-1, -1), to |-> Position(-1, -1)]

\* the notation bench at rest: no square to write, no text to read
NoNotation ==
    [stage |-> "idle", coord |-> Position(-1, -1), text |-> <<>>,
     parsed |-> Position(-1, -1)]

\* the game as constructed
InitGame ==
    /\ board = NewGame.board
    /\ currentPlayer = NewGame.currentPlayer
    /\ gameOver = NewGame.gameOver
    /\ winner = NewGame.winner
    /\ capturedPieceValue = NewGame.capturedPieceValue
    /\ playerInCheck = NewGame.isInCheck
    /\ playerName = NewGame.name
    /\ started = FALSE
    /\ lastPly = NoPly
    /\ plies = 0
    /\ untouched = CastlingHomes

Init ==
    /\ InitGame
    /\ book \in 1 .. Len(Books)
    /\ notation = NoNotation

\* the head of Game::start: the two names are read and set, once, before the
\* first turn
StartNames(whiteName, blackName) ==
    /\ ~started
    /\ started' = TRUE
    /\ GameBecomes(startNames(Game, whiteName, blackName))
    /\ UNCHANGED <<lastPly, book, plies, untouched, notation>>

\* the head of Game::playTurn: the current player's check flag is refreshed
TurnHead(g) ==
    [g EXCEPT !.isInCheck[g.currentPlayer] = isInCheck(g.board, g.currentPlayer)]

\* Game::playTurn on the words input1 input2, input1 being neither a quit word
\* nor a castling token: the outcome reported and the game left behind
playTurnMove(g0, input1, input2, choice) ==
    Eval(TurnHead(g0), LAMBDA g :
         IF Len(input1) = 4 THEN [result |-> "Invalid Format!!! try again", game |-> g]
         ELSE IF ~isValid(parsePosition(input1)) THEN [result |-> "Invalid move!", game |-> g]
         ELSE makeMove(g, input1, input2, choice))

\* Game::playTurn on a castling token
playTurnCastle(g0, input1) ==
    Eval(TurnHead(g0), LAMBDA g :
         handleCastling(g, IF input1 \in KingSideTokens THEN "kingside" ELSE "queenside"))

\* the quit dialogue as it would be if resigning made the resigner the winner
playTurnQuitResignerWins(g0, choice, response) ==
    LET g == TurnHead(g0)
    IN  IF choice = <<49>>
        THEN [g EXCEPT !.gameOver = TRUE, !.winner = getName(g, g.currentPlayer)]
        ELSE IF choice = <<50>> /\ response \in { <<121>>, <<89>>, <<121, 101, 115>> }
        THEN [g EXCEPT !.gameOver = TRUE]
        ELSE g

\* Game::playTurn on a quit word: the game left behind
playTurnQuit(g0, choice, response) ==
    Eval(TurnHead(g0), LAMBDA g :
         IF choice = <<49>>
         THEN [g EXCEPT !.gameOver = TRUE, !.winner = getName(g, Enemy(g.currentPlayer))]
         ELSE IF choice = <<50>>
         THEN IF response \in { <<121>>, <<89>>, <<121, 101, 115>> }
              THEN [g EXCEPT !.gameOver = TRUE]
              ELSE g
         ELSE g)

\* the promotion prompt is reached only by a pawn move to the last rank
WillPromote(g, input1, input2) ==
    LET piece == getPiece(g.board, parsePosition(input1))
        toPos == parsePosition(input2)
    IN  /\ piece.type = "Pawn"
        /\ toPos.row = IF piece.color = "WHITE" THEN 0 ELSE 7

ChoiceInputs(g, input1, input2) ==
    IF WillPromote(g, input1, input2) THEN PromotionLetters ELSE {ChQ}

\* one turn of the loop of Game::start on a move
PlayTurnMove(input1, input2, choice) ==
    /\ started /\ ~gameOver
    /\ input1 \notin QuitTokens \cup CastleInputs
    /\ \E r \in { playTurnMove(Game, input1, input2, choice) } :
           /\ GameBecomes(r.game)
           /\ lastPly' = IF r.result = "true"
                         THEN [op |-> "move", from |-> parsePosition(input1),
                               to |-> parsePosition(input2)]
                         ELSE lastPly
           /\ plies' = IF r.result = "true" THEN plies + 1 ELSE plies
           /\ untouched' = IF r.result = "true"
                           THEN untouched \ { parsePosition(input1), parsePosition(input2) }
                           ELSE untouched
    /\ UNCHANGED <<started, book, notation>>

\* one turn of the loop of Game::start on a castling token
PlayTurnCastle(input1) ==
    /\ started /\ ~gameOver
    /\ \E r \in { playTurnCastle(Game, input1) }, row \in { HomeRow(currentPlayer) } :
           /\ GameBecomes(r.game)
           /\ lastPly' = IF r.result = "true"
                         THEN [op |-> "castle", from |-> Position(row, 4),
                               to |-> Position(row, IF input1 \in KingSideTokens THEN 6 ELSE 2)]
                         ELSE lastPly
           /\ plies' = IF r.result = "true" THEN plies + 1 ELSE plies
           /\ untouched' = IF r.result = "true"
                           THEN untouched \ { Position(row, 4),
                                              Position(row, IF input1 \in KingSideTokens
                                                            THEN 7 ELSE 0) }
                           ELSE untouched
    /\ UNCHANGED <<started, book, notation>>

\* one turn of the loop of Game::start on a quit word: the menu answer choice
\* and, after a draw offer, the opponent's answer response
PlayTurnQuit(input1, choice, response) ==
    /\ started /\ ~gameOver
    /\ input1 \in QuitTokens
    /\ \E g \in { playTurnQuit(Game, choice, response) } :
           /\ GameBecomes(g)
           /\ lastPly' = IF g.gameOver
                         THEN [NoPly EXCEPT !.op = IF choice = <<49>> THEN "resign" ELSE "draw"]
                         ELSE lastPly
    /\ UNCHANGED <<started, book, plies, untouched, notation>>

ReadNames ==
    \E n \in NameInputs(book) : StartNames(n[1], n[2])

AttemptMove ==
    \E m \in MoveInputs(book) :
        \E choice \in ChoiceInputs(Game, m[1], m[2]) :
            PlayTurnMove(m[1], m[2], choice)

AttemptCastle ==
    \E t \in CastleInputs : PlayTurnCastle(t)

AttemptQuit ==
    \E t \in QuitInputs(book), choice \in MenuChoices, response \in DrawResponses :
        PlayTurnQuit(t, choice, response)

Next == ReadNames \/ AttemptMove \/ AttemptCastle \/ AttemptQuit

Spec == Init /\ [][Next]_vars

(***************************************************************************)
(* The notation bench: Game::parsePosition and the operator<< of Position  *)
(* applied to inputs drawn in the initial state.  A bench starts either    *)
(* with a text to read or with a board square to write and read back.      *)
(***************************************************************************)
MaxTextLen == 3

\* the characters typed: the ends of a-h, A-H and 1-8 and their neighbours
TextChars ==
    { ChLowerA - 1, ChLowerA, ChLowerH, ChLowerH + 1,
      ChUpperA - 1, ChUpperA, ChUpperA + 7, ChUpperA + 8,
      ChDigit0, ChDigit1, ChDigit8, ChDigit8 + 1 }

Texts == UNION { [1 .. n -> TextChars] : n \in 0 .. MaxTextLen }

gameVars == <<board, currentPlayer, gameOver, winner, capturedPieceValue,
              playerInCheck, playerName, started, lastPly, book, plies, untouched>>

InitNotation ==
    /\ InitGame
    /\ book = 1
    /\ \/ \E t \in Texts : notation = [NoNotation EXCEPT !.stage = "text", !.text = t]
       \/ \E c \in Squares : notation = [NoNotation EXCEPT !.stage = "square", !.coord = c]

\* os << pos: the square is written in algebraic notation
WriteSquare ==
    /\ notation.stage = "square"
    /\ notation' = [notation EXCEPT !.stage = "text", !.text = Algebraic(notation.coord)]
    /\ UNCHANGED gameVars

\* parsePosition(text)
ReadText ==
    /\ notation.stage = "text"
    /\ notation' = [notation EXCEPT !.stage = "parsed", !.parsed = parsePosition(notation.text)]
    /\ UNCHANGED gameVars

NextNotation == WriteSquare \/ ReadText

SpecNotation == InitNotation /\ [][NextNotation]_vars

(***************************************************************************)
(* Vocabulary of the properties: the rules of chess stated on the squares, *)
(* independently of the engine's own attack test.                          *)
(***************************************************************************)
At(sq) == getPiece(board, sq)

HoldsPiece(b, sq, type, color) ==
    LET p == getPiece(b, sq) IN p.type = type /\ p.color = color

\* every square strictly between two aligned squares is empty
ClearBetween(b, a, z) ==
    LET n == IF Abs(z.row - a.row) > Abs(z.col - a.col)
             THEN Abs(z.row - a.row) ELSE Abs(z.col - a.col)
    IN  \A k \in 1 .. (n - 1) :
            getPiece(b, Position(a.row + k * Sign(z.row - a.row),
                                 a.col + k * Sign(z.col - a.col))) = NoPiece

\* the piece standing on sq attacks pos; a pawn attacks its two forward
\* diagonal squares whether or not they are occupied
Threatens(b, sq, pos) ==
    LET p == getPiece(b, sq)
        dr == pos.row - sq.row
        dc == pos.col - sq.col
        straight == (dr = 0) # (dc = 0)
        diagonal == Abs(dr) = Abs(dc) /\ dr # 0
    IN  CASE p.type = "Pawn"   -> dr = (IF p.color = "WHITE" THEN -1 ELSE 1) /\ Abs(dc) = 1
          [] p.type = "Knight" -> {Abs(dr), Abs(dc)} = {1, 2}
          [] p.type = "King"   -> Abs(dr) <= 1 /\ Abs(dc) <= 1 /\ sq # pos
          [] p.type = "Rook"   -> straight /\ ClearBetween(b, sq, pos)
          [] p.type = "Bishop" -> diagonal /\ ClearBetween(b, sq, pos)
          [] p.type = "Queen"  -> (straight \/ diagonal) /\ ClearBetween(b, sq, pos)
          [] OTHER -> FALSE

AttackedBy(b, pos, byColor) ==
    \E sq \in Squares : getPiece(b, sq).color = byColor /\ Threatens(b, sq, pos)

KingSquares(b, color) == { sq \in Squares : HoldsPiece(b, sq, "King", color) }

KingAttacked(b, color) ==
    \E k \in KingSquares(b, color) : AttackedBy(b, k, Enemy(color))

\* the position a pattern-legal move from -> to produces, as makeMove plays it
Played(b, from, to) ==
    IF isEnPassantMove(from, to, b) THEN performEnPassant(from, to, b)
    ELSE movePiece(b, from, to).board

\* the player has a move that is pattern-legal and does not leave the
\* player's own king attacked in the position the move produces
HasLegalMove(b, color) ==
    \E from \in Squares :
        /\ getPiece(b, from).color = color
        /\ \E to \in Squares :
               /\ isValidMove(getPiece(b, from), to, b)
               /\ ~KingAttacked(Played(b, from, to), color)

\* the fields of the game that a rejected request must leave alone
SameGame(g) ==
    /\ g.board = board
    /\ g.currentPlayer = currentPlayer
    /\ g.gameOver = gameOver
    /\ g.winner = winner
    /\ g.capturedPieceValue = capturedPieceValue

\* P holds of the outcome of every request that can be typed in the current
\* state of a game that follows its book
EveryRequest(P(_)) ==
    /\ \A m \in MoveInputs(book) :
          \A ch \in ChoiceInputs(Game, m[1], m[2]) :
              P(playTurnMove(Game, m[1], m[2], ch))
    /\ \A t \in CastleInputs : P(playTurnCastle(Game, t))

\* some request that can be typed in the current state is answered by result
SomeRequestGets(result) ==
    \/ \E m \in MoveInputs(book) : playTurnMove(Game, m[1], m[2], ChQ).result = result
    \/ \E t \in CastleInputs : playTurnCastle(Game, t).result = result

JustMoved == lastPly.op = "move"
JustCastled == lastPly.op = "castle"

(***************************************************************************)
(* C1 .. C10                                                               *)
(***************************************************************************)
\* C1: after every successful attemptMove the king of the player who made the
\* move is not attacked by any opposing piece in the resulting position.
C1_MoverKingSafe == JustMoved => ~KingAttacked(board, Enemy(currentPlayer))

\* C2: attemptCastle succeeds only if no opposing piece attacks the king's
\* square, the square it passes over or its destination (a pawn attacking its
\* forward diagonals whether occupied or not), and the castling player's king
\* is not in check right after the castle.
C2_CastleNeverThroughAttack ==
    [][ (plies' = plies + 1 /\ lastPly'.op = "castle") =>
          /\ \A c \in Cols :
                (c - lastPly'.from.col) * (c - lastPly'.to.col) <= 0 =>
                    ~AttackedBy(board, Position(lastPly'.from.row, c), Enemy(currentPlayer))
          /\ ~KingAttacked(board', currentPlayer) ]_vars

\* inputs for Board::wouldBeInCheck: the squares of the files d and e and
\* three coordinates off the board
ProbePositions == FreeSquares \cup { Position(-1, -1), Position(8, 0), Position(3, 8) }

\* C3: wouldBeInCheck(from, to, color) returns with the board exactly as it
\* was: the same piece, stored position and hasMoved flag on every square and
\* the same en-passant target and flag, whatever it returns.
C3_WouldBeInCheckRestores ==
    \A from \in ProbePositions, to \in ProbePositions, color \in Colors :
        wouldBeInCheck(board, from, to, color).board = board

\* a state where wouldBeInCheck answers true for one simulated capture by an
\* unmoved piece and false for another
C3_Witness ==
    /\ plies > 0
    /\ \A answer \in BOOLEAN :
          \E from \in FreeSquares, to \in FreeSquares :
              /\ At(from) # NoPiece /\ ~At(from).hasMoved
              /\ At(to) # NoPiece /\ At(to).color # At(from).color
              /\ wouldBeInCheck(board, from, to, At(from).color).ret = answer

\* C4: in every reachable state exactly one white king and exactly one black
\* king are on the board.
C4_OneKingEach ==
    \A color \in Colors : Cardinality(KingSquares(board, color)) = 1

\* C5: after every successful ply en passant is available iff that ply was a
\* pawn double step, and then the target is the square the pawn jumped over.
C5_EnPassantOnePly ==
    [][ plies' = plies + 1 =>
          LET from == lastPly'.from
              to == lastPly'.to
              doubleStep == /\ lastPly'.op = "move"
                            /\ getPiece(board, from).type = "Pawn"
                            /\ Abs(to.row - from.row) = 2
          IN  /\ board'.enPassantAvailable <=> doubleStep
              /\ doubleStep =>
                    /\ board'.enPassantTarget.col = from.col
                    /\ 2 * board'.enPassantTarget.row = from.row + to.row ]_vars

\* an en-passant capture has just been played and no new opportunity exists
C5_Witness ==
    /\ JustMoved
    /\ HoldsPiece(board, lastPly.to, "Pawn", Enemy(currentPlayer))
    /\ lastPly.to.col # lastPly.from.col
    /\ lastPly.to = board.enPassantTarget
    /\ ~board.enPassantAvailable

SqE5 == Position(3, 4)
SqD5 == Position(3, 3)
SqD6 == Position(2, 3)
SqD7 == Position(1, 3)

\* White to move with a pawn on e5 beside a black pawn on d5, d6 empty
C6_Setup ==
    /\ currentPlayer = "WHITE"
    /\ HoldsPiece(board, SqE5, "Pawn", "WHITE")
    /\ HoldsPiece(board, SqD5, "Pawn", "BLACK")
    /\ At(SqD6) = NoPiece

\* C6: with a white pawn on e5, right after Black's d7-d5 the capture e5xd6
\* is accepted unless it leaves White's king attacked, puts the white pawn on
\* d6 and removes the black pawn from d5; when d7-d5 was not the last ply,
\* e5xd6 is rejected as pattern-illegal.
C6_ClassicEnPassant ==
    C6_Setup =>
        LET r == playTurnMove(Game, Sq("e", 5), Sq("d", 6), ChQ)
            b == r.game.board
        IN  IF lastPly = [op |-> "move", from |-> SqD7, to |-> SqD5]
            THEN ~KingAttacked(Played(board, SqE5, SqD6), "WHITE") =>
                    /\ r.result = "true"
                    /\ getPiece(b, SqD6) = [type |-> "Pawn", color |-> "WHITE",
                                            position |-> SqD6, hasMoved |-> TRUE]
                    /\ getPiece(b, SqD5) = NoPiece
                    /\ getPiece(b, SqE5) = NoPiece
                    /\ \A sq \in Squares \ {SqD5, SqD6, SqE5} : getPiece(b, sq) = At(sq)
            ELSE r.result = "false" /\ SameGame(r.game)

\* the capture e5xd6 has been played right after d7-d5
C6_Witness ==
    /\ lastPly = [op |-> "move", from |-> SqE5, to |-> SqD6]
    /\ HoldsPiece(board, SqD6, "Pawn", "WHITE")
    /\ At(SqD5) = NoPiece /\ At(SqD7) = NoPiece

\* C7: after every successful ply gameOver is set iff the player to move has
\* no move that is pattern-legal and not king-exposing; the winner is then
\* the player who just moved if the player to move is in check, else nobody.
C7_GameOverIffNoLegalMove ==
    (JustMoved \/ JustCastled) =>
        /\ gameOver <=> ~HasLegalMove(board, currentPlayer)
        /\ gameOver => winner = IF KingAttacked(board, currentPlayer)
                                THEN playerName[Enemy(currentPlayer)] ELSE NoWinner

\* the kinds and colours on the board
Placement(b) == [sq \in Squares |-> <<getPiece(b, sq).type, getPiece(b, sq).color>>]

\* a placement with the piece of one square carried to another
Carry(pl, from, to) == [pl EXCEPT ![to] = pl[from], ![from] = <<"None", "NONE">>]

FoolsLine == <<Mv("f", 2, "f", 3), Mv("e", 7, "e", 5), Mv("g", 2, "g", 4), Mv("d", 8, "h", 4)>>

\* the placement after the first n plies of 1.f3 e5 2.g4 Qh4
FoolsPlacement(n) ==
    LET p0 == Placement(initialize)
        p1 == Carry(p0, Position(6, 5), Position(5, 5))
        p2 == Carry(p1, Position(1, 4), Position(3, 4))
        p3 == Carry(p2, Position(6, 6), Position(4, 6))
        p4 == Carry(p3, Position(0, 3), Position(4, 7))
    IN  <<p0, p1, p2, p3, p4>>[n + 1]

\* no player has resigned or agreed a draw
NobodyQuit == lastPly.op \notin {"resign", "draw"}

\* C8: f2-f3, e7-e5, g2-g4, d8-h4 is accepted ply by ply from the starting
\* position; gameOver is false after each of the first three plies and after
\* the fourth gameOver is true and the winner is the Black player.
C8_FoolsMate ==
    \A n \in 0 .. 4 :
        (plies = n /\ Placement(board) = FoolsPlacement(n) /\ NobodyQuit) =>
            IF n < 4
            THEN LET r == playTurnMove(Game, FoolsLine[n + 1][1], FoolsLine[n + 1][2], ChQ)
                 IN  /\ ~gameOver /\ winner = NoWinner
                     /\ r.result = "true"
                     /\ Placement(r.game.board) = FoolsPlacement(n + 1)
            ELSE gameOver /\ winner = playerName["BLACK"]

C8_Witness ==
    /\ plies = 4 /\ Placement(board) = FoolsPlacement(4)
    /\ playerName = [c \in Colors |-> IF c = "WHITE" THEN "Alice" ELSE "Bob"]
    /\ gameOver /\ winner = "Bob"
    /\ lastPly = [op |-> "move", from |-> Position(0, 3), to |-> Position(4, 7)]

\* a request that is turned down leaves the game as it is
RejectedLeavesGame(r) == r.result # "true" => SameGame(r.game)

\* C9: every attemptMove or attemptCastle that is rejected leaves the board
\* (pieces, positions, hasMoved flags, en-passant target and flag), the
\* current player, gameOver, the winner and both captured values unchanged.
C9_RejectionChangesNothing == EveryRequest(RejectedLeavesGame)

\* a state where requests are turned down for each cause, one of them a move
\* of a not yet moved piece that would expose the king
C9_Witness ==
    /\ \A result \in { "false", "No piece at that position!", "That's not your piece!",
                       "Cannot castle kingside!", "Move would leave king in check!" } :
          SomeRequestGets(result)
    /\ \E m \in MoveInputs(book) :
          /\ playTurnMove(Game, m[1], m[2], ChQ).result = "Move would leave king in check!"
          /\ ~At(parsePosition(m[1])).hasMoved

\* the turn passes exactly when the request succeeds, and a piece that has
\* come to a square or changed there belongs to the player who asked
TurnPassesOnSuccess(r) ==
    /\ r.result = "true" <=> r.game.currentPlayer # currentPlayer
    /\ \A sq \in Squares :
          LET after == getPiece(r.game.board, sq)
          IN  (after # At(sq) /\ after # NoPiece) => after.color = currentPlayer

\* C10: White moves first; the current player changes exactly when a request
\* succeeds; every piece a successful ply relocates belongs to the player
\* whose turn it was.
C10_TurnOrder ==
    /\ plies = 0 => currentPlayer = "WHITE"
    /\ EveryRequest(TurnPassesOnSuccess)

\* Black is to move after White has castled
C10_Witness ==
    /\ JustCastled /\ currentPlayer = "BLACK" /\ plies > 1
    /\ HoldsPiece(board, Position(7, 6), "King", "WHITE")
    /\ HoldsPiece(board, Position(7, 5), "Rook", "WHITE")

(***************************************************************************)
(* C11 .. C20                                                              *)
(***************************************************************************)
\* the corner from which the rook castles and the files the king and the rook
\* castle to
CornerCol(kingSide) == IF kingSide THEN 7 ELSE 0
KingGoesTo(kingSide) == IF kingSide THEN 6 ELSE 2
RookGoesTo(kingSide) == IF kingSide THEN 5 ELSE 3

\* the squares of the home rank the king stands on or crosses when castling
KingWalk(row, kingSide) ==
    { Position(row, c) : c \in (IF kingSide THEN 4 .. 6 ELSE 2 .. 4) }

\* the squares of the home rank strictly between king and rook
Between(row, kingSide) ==
    { Position(row, c) : c \in (IF kingSide THEN 5 .. 6 ELSE 1 .. 3) }

\* king and rook of the player to move are unmoved on their home squares,
\* the squares between them are empty and no square of the king's walk is
\* attacked
CastleIsDue(kingSide) ==
    LET row == HomeRow(currentPlayer)
    IN  /\ At(Position(row, 4)) = Piece("King", currentPlayer, Position(row, 4))
        /\ At(Position(row, CornerCol(kingSide)))
              = Piece("Rook", currentPlayer, Position(row, CornerCol(kingSide)))
        /\ \A sq \in Between(row, kingSide) : At(sq) = NoPiece
        /\ \A sq \in KingWalk(row, kingSide) : ~AttackedBy(board, sq, Enemy(currentPlayer))

\* the board b is the current board after the player to move has castled
CastledFrom(b, kingSide) ==
    LET row == HomeRow(currentPlayer)
        kingTo == Position(row, KingGoesTo(kingSide))
        rookTo == Position(row, RookGoesTo(kingSide))
        corner == Position(row, CornerCol(kingSide))
    IN  /\ getPiece(b, kingTo) = [type |-> "King", color |-> currentPlayer,
                                  position |-> kingTo, hasMoved |-> TRUE]
        /\ getPiece(b, rookTo) = [type |-> "Rook", color |-> currentPlayer,
                                  position |-> rookTo, hasMoved |-> TRUE]
        /\ getPiece(b, Position(row, 4)) = NoPiece
        /\ getPiece(b, corner) = NoPiece
        /\ \A sq \in Squares \ {kingTo, rookTo, Position(row, 4), corner} :
               getPiece(b, sq) = At(sq)

\* C11: with king and rook of the castling colour unmoved at home, the
\* squares between them empty and none of the king's squares attacked, the
\* castle is accepted, king and rook stand on g and f (kingside) or c and d
\* (queenside) with hasMoved set, the squares e and h (or a) are empty and
\* every other square is unchanged.
C11_CastleRelocates ==
    \A t \in CastleInputs :
        LET kingSide == t \in KingSideTokens
            r == playTurnCastle(Game, t)
        IN  CastleIsDue(kingSide) =>
                r.result = "true" /\ CastledFrom(r.game.board, kingSide)

\* Black has just castled queenside after White castled kingside
C11_Witness ==
    /\ JustCastled /\ lastPly.to = Position(0, 2)
    /\ HoldsPiece(board, Position(0, 2), "King", "BLACK")
    /\ HoldsPiece(board, Position(0, 3), "Rook", "BLACK")
    /\ HoldsPiece(board, Position(7, 6), "King", "WHITE")
    /\ At(Position(0, 0)) = NoPiece /\ At(Position(0, 4)) = NoPiece

\* the home squares of the king and of the rook of a castle by the player to
\* move
CastleHomes(kingSide) ==
    { Position(HomeRow(currentPlayer), 4),
      Position(HomeRow(currentPlayer), CornerCol(kingSide)) }

\* C12: a castle is accepted only while no accepted ply has moved the king
\* or that side's rook, even if both stand on their home squares again, so a
\* player castles at most once; kings and rooks that no accepted ply has
\* moved keep hasMoved = false through rejected moves, trial moves and the
\* enumeration of legal moves.
C12_CastlingRights ==
    /\ \A sq \in untouched : At(sq) = getPiece(initialize, sq)
    /\ \A t \in CastleInputs :
          playTurnCastle(Game, t).result = "true" =>
              CastleHomes(t \in KingSideTokens) \subseteq untouched

\* White's king has been to f1 and back, the rook has not moved, f1 and g1
\* are empty and unattacked, and the castle is turned down
C12_Witness ==
    /\ currentPlayer = "WHITE"
    /\ HoldsPiece(board, Position(7, 4), "King", "WHITE")
    /\ Position(7, 4) \notin untouched /\ Position(7, 7) \in untouched
    /\ \A sq \in Between(7, TRUE) : At(sq) = NoPiece
    /\ \A sq \in KingWalk(7, TRUE) : ~AttackedBy(board, sq, "BLACK")
    /\ \A t \in KingSideTokens : playTurnCastle(Game, t).result = "Cannot castle kingside!"

\* the letters Q, R, B, N in both cases and the unlisted letters X and k
LettersTried == { ChQ, ChLowerQ, ChR, ChLowerR, ChB, ChLowerB, ChN, ChLowerN, 88, 107 }

\* the piece a letter stands for at the promotion prompt
LetterPiece(ch) ==
    CASE ch \in {ChR, ChLowerR} -> "Rook"
      [] ch \in {ChB, ChLowerB} -> "Bishop"
      [] ch \in {ChN, ChLowerN} -> "Knight"
      [] OTHER -> "Queen"

\* C13: no pawn stands on rank 0 or rank 7; a pawn move to the last rank
\* that is accepted leaves there a fresh piece of the mover's colour, the one
\* named by the letter (Q, R, B, N in either case, a Queen for any other
\* letter), and the turn switch and the terminal-state detection see that
\* piece.
C13_PromotionCompletes ==
    /\ \A sq \in Squares : sq.row \in {0, 7} => At(sq).type # "Pawn"
    /\ \A m \in MoveInputs(book) :
          WillPromote(Game, m[1], m[2]) =>
              \A ch \in LettersTried :
                  LET r == playTurnMove(Game, m[1], m[2], ch)
                      to == parsePosition(m[2])
                      b == r.game.board
                  IN  r.result = "true" =>
                          /\ getPiece(b, to) = Piece(LetterPiece(ch), currentPlayer, to)
                          /\ r.game.currentPlayer = Enemy(currentPlayer)
                          /\ r.game.gameOver <=> ~HasLegalMove(b, Enemy(currentPlayer))
                          /\ r.game.isInCheck[Enemy(currentPlayer)]
                                <=> KingAttacked(b, Enemy(currentPlayer))

\* a black pawn has just been promoted to a knight on g1
C13_Witness ==
    /\ JustMoved /\ lastPly.from.row = 6 /\ lastPly.to.row = 7
    /\ At(lastPly.to) = Piece("Knight", "BLACK", lastPly.to)

\* what a captured piece is worth
Worth(type) ==
    CASE type = "Pawn" -> 1 [] type = "Knight" -> 3 [] type = "Bishop" -> 3
      [] type = "Rook" -> 5 [] type = "Queen" -> 9 [] OTHER -> 0

\* the worth of the pieces of a colour that stand on b and no longer on c
WorthTaken(b, c, color) ==
    LET taken == { sq \in Squares : getPiece(b, sq).color = color
                                    /\ getPiece(c, sq).color # color }
    IN  IF taken = {} THEN 0 ELSE Worth(getPiece(b, CHOOSE sq \in taken : TRUE).type)

\* C14: a successful ply that removes an opposing piece, en passant
\* included, adds that piece's value to the mover's captured value and leaves
\* the opponent's alone; a ply that captures nothing changes neither.
C14_CapturedValue ==
    [][ plies' = plies + 1 =>
          /\ capturedPieceValue'[currentPlayer]
                = capturedPieceValue[currentPlayer]
                  + WorthTaken(board, board', Enemy(currentPlayer))
          /\ capturedPieceValue'[Enemy(currentPlayer)]
                = capturedPieceValue[Enemy(currentPlayer)] ]_vars

\* C15: isValidMove is false for every piece and every target that holds a
\* piece of the same colour or is the piece's own square; the active
\* en-passant target never holds a piece of the capturing side.
C15_NoOwnCapture ==
    /\ \A sq \in Squares, to \in Squares :
          (At(sq) # NoPiece /\ (At(to).color = At(sq).color \/ to = sq))
              => ~isValidMove(At(sq), to, board)
    /\ board.enPassantAvailable => At(board.enPassantTarget).color # currentPlayer

\* en passant is available to a pawn of the player to move, and a rook of
\* that player stands where only the colour of the target forbids its move
C15_Witness ==
    /\ board.enPassantAvailable
    /\ \E sq \in Squares :
          /\ HoldsPiece(board, sq, "Pawn", currentPlayer)
          /\ isValidMove(At(sq), board.enPassantTarget, board)
    /\ \E sq \in Squares, to \in Squares :
          /\ HoldsPiece(board, sq, "Rook", currentPlayer)
          /\ At(to).color = currentPlayer /\ to # sq
          /\ RookIsValidMove([At(sq) EXCEPT !.color = Enemy(currentPlayer)], to, board)

\* C16: every piece standing on a square has that square as its stored
\* position, after successful and rejected plies, castling, en-passant
\* capture, promotion and the enumeration of legal moves.
C16_PositionMatchesSquare ==
    \A sq \in Squares : At(sq) # NoPiece => At(sq).position = sq

\* White has castled and a black pawn has since been promoted on g1
C16_Witness ==
    /\ JustMoved /\ lastPly.to = Position(7, 6)
    /\ At(Position(7, 6)) = Piece("Queen", "BLACK", Position(7, 6))
    /\ HoldsPiece(board, Position(7, 5), "Rook", "WHITE")
    /\ At(Position(7, 5)).position = Position(7, 5)

\* C17: gameOver starts false; once true it stays true and no ply is
\* executed any more; a winner is recorded only when gameOver is true.
C17_GameOverOnce ==
    /\ ~gameOver
    /\ [][ gameOver => (gameOver' /\ UNCHANGED <<board, currentPlayer, winner, plies>>) ]_vars
    /\ [](winner # NoWinner => gameOver)

\* White has resigned after one ply by each side, in a game in which Black
\* typed the name "White"
C17_Witness ==
    /\ lastPly.op = "resign" /\ plies = 2
    /\ playerName["BLACK"] = "White"
    /\ gameOver /\ winner = "White" /\ currentPlayer = "WHITE"

SqE2 == Position(6, 4)
SqE3 == Position(5, 4)
SqE4 == Position(4, 4)

\* White's e2-e4 is the only ply played
C18_Setup == plies = 1 /\ lastPly = [op |-> "move", from |-> SqE2, to |-> SqE4]

\* C18 as stated: after e2-e4 from the starting position e2 is empty, e4
\* holds a white pawn and en passant is not available.
C18_TargetUnset ==
    C18_Setup =>
        /\ At(SqE2) = NoPiece
        /\ HoldsPiece(board, SqE4, "Pawn", "WHITE")
        /\ ~board.enPassantAvailable

\* C18 amended: after e2-e4 from the starting position e2 is empty, e4 holds
\* a white pawn and en passant is available with target e3, the square the
\* pawn jumped over, although no black pawn stands next to e4.
C18_TargetSet ==
    C18_Setup =>
        /\ At(SqE2) = NoPiece
        /\ At(SqE4) = [type |-> "Pawn", color |-> "WHITE", position |-> SqE4, hasMoved |-> TRUE]
        /\ \A sq \in Squares \ {SqE2, SqE4} : At(sq) = getPiece(initialize, sq)
        /\ board.enPassantAvailable
        /\ board.enPassantTarget = SqE3

C18_Witness ==
    /\ C18_Setup /\ currentPlayer = "BLACK"
    /\ \A c \in {3, 5} : At(Position(4, c)) = NoPiece

\* C19: for every valid coordinate c, the text written for c is the file
\* letter 'a' + file followed by the rank digit 8 - rank, and parsing that
\* text yields c again.
C19_RoundTrip ==
    isValid(notation.coord) =>
        /\ notation.stage \in {"text", "parsed"} =>
              /\ Len(notation.text) = 2
              /\ notation.text[1] = 97 + notation.coord.col
              /\ notation.text[2] = 48 + (8 - notation.coord.row)
        /\ notation.stage = "parsed" => notation.parsed = notation.coord

\* the corner h8 has been written and read back
C19_Witness ==
    /\ notation.stage = "parsed"
    /\ notation.coord = Position(0, 7)
    /\ notation.text = <<104, 56>>
    /\ notation.parsed = Position(0, 7)

\* a text of exactly two characters, a letter a-h or A-H and a digit 1-8
WellFormed(t) ==
    /\ Len(t) = 2
    /\ t[1] \in (97 .. 104) \cup (65 .. 72)
    /\ t[2] \in 49 .. 56

\* C20: parsePosition returns a valid coordinate iff the text is exactly two
\* characters, a letter a-h in either case and a digit 1-8; then rank =
\* 8 - digit and file = letter - 'a'; every other text yields (-1,-1), for
\* which isValid is false.
C20_ParseShape ==
    notation.stage = "parsed" =>
        /\ isValid(notation.parsed) <=> WellFormed(notation.text)
        /\ WellFormed(notation.text) =>
              /\ notation.parsed.row = 8 - (notation.text[2] - 48)
              /\ notation.parsed.col = IF notation.text[1] >= 97
                                       THEN notation.text[1] - 97
                                       ELSE notation.text[1] - 65
        /\ ~WellFormed(notation.text) =>
              /\ notation.parsed = Position(-1, -1)
              /\ ~isValid(notation.parsed)

\* "H1" typed in upper case has been read as the corner (7,7)
C20_Witness ==
    /\ notation.stage = "parsed"
    /\ notation.coord = Position(-1, -1)
    /\ notation.text = <<72, 49>>
    /\ notation.parsed = Position(7, 7)

(***************************************************************************)
(* C21 .. C30                                                              *)
(***************************************************************************)
\* the first cause, in the order of the checks, for which a move request is
\* turned down
RejectionCause(g, from, to) ==
    LET fromPos == parsePosition(from)
        toPos == parsePosition(to)
        p == getPiece(g.board, fromPos)
    IN  IF ~isValid(fromPos) \/ ~isValid(toPos) THEN "InvalidNotation"
        ELSE IF p = NoPiece THEN "NoPieceAtSource"
        ELSE IF p.color # g.currentPlayer THEN "WrongColor"
        ELSE IF ~isValidMove(p, toPos, g.board) THEN "MoveRejected"
        ELSE IF wouldBeInCheck(g.board, fromPos, toPos, g.currentPlayer).ret THEN "KingExposed"
        ELSE "None"

\* the causes met by the requests that can be typed now, each with the
\* outcome makeMove reports for it
CausesAndOutcomes ==
    { <<RejectionCause(Game, m[1], m[2]), makeMove(Game, m[1], m[2], ChQ).result>> :
        m \in MoveInputs(book) }

\* C21: makeMove reports a distinct outcome for each rejection cause
\* (malformed notation, empty source, piece of the other colour,
\* pattern-illegal target, king-exposing move), so that malformed notation
\* can be told apart from a pattern-illegal move.
C21_DistinctOutcomes ==
    \A p \in CausesAndOutcomes, q \in CausesAndOutcomes :
        p[1] # q[1] => p[2] # q[2]

\* requests turned down for each of the five causes can be typed now
C21_Witness ==
    {"InvalidNotation", "NoPieceAtSource", "WrongColor", "MoveRejected", "KingExposed"}
        \subseteq { p[1] : p \in CausesAndOutcomes }

\* the piece on sq bears on pos: a pawn on its two forward diagonal squares
\* only, any other piece where its move pattern reaches
BearsOn(b, sq, pos) ==
    LET p == getPiece(b, sq)
    IN  IF p.type = "Pawn"
        THEN /\ pos.row - sq.row = (IF p.color = "WHITE" THEN -1 ELSE 1)
             /\ Abs(pos.col - sq.col) = 1
        ELSE isValidMove(p, pos, b)

\* C22: isUnderAttack never reports a square attacked merely because a pawn
\* of byColor could advance straight onto it: whenever it reports an attack,
\* some piece other than a pawn reaches the square or a pawn has it on a
\* forward diagonal.
C22_NoForwardPawnAttack ==
    \A pos \in Squares, byColor \in Colors :
        isUnderAttack(board, pos, byColor) =>
            \E sq \in Squares : At(sq).color = byColor /\ BearsOn(board, sq, pos)

\* C23: hasValidMoves(color) is true iff some piece of the colour has a
\* target among the 64 squares for which isValidMove holds and wouldBeInCheck
\* is false; the call leaves the board, the hasMoved flags and the en-passant
\* state as they were.
C23_HasValidMoves ==
    \A color \in Colors :
        LET hv == hasValidMoves(board, color)
        IN  /\ hv.ret <=>
                  \E from \in Squares, to \in Squares :
                      /\ At(from).color = color
                      /\ isValidMove(At(from), to, board)
                      /\ ~wouldBeInCheck(board, from, to, color).ret
            /\ hv.board = board

\* White is mated: White has no valid move, Black has one, and a white piece
\* that already moved has a pattern-legal move that would expose the king
C23_Witness ==
    /\ gameOver /\ JustMoved /\ winner = playerName["BLACK"]
    /\ ~hasValidMoves(board, "WHITE").ret
    /\ hasValidMoves(board, "BLACK").ret
    /\ \E from \in Squares, to \in Squares :
          /\ At(from).color = "WHITE" /\ At(from).hasMoved
          /\ isValidMove(At(from), to, board)
          /\ wouldBeInCheck(board, from, to, "WHITE").ret

\* coordinates off the board, one beyond each edge
OffBoard == { Position(-1, -1), Position(8, 0), Position(3, 8), Position(0, -1) }

\* C24: invalid situations fail closed: isInCheck(color) is false when no
\* king of the colour is on the board and otherwise equals
\* isUnderAttack(kingSquare, opponent); getKingPosition returns the invalid
\* sentinel when there is no king; wouldBeInCheck returns true and leaves the
\* board alone when from or to is out of range or from is empty; getPiece on
\* an out-of-range coordinate returns no piece.
C24_FailClosed ==
    /\ \A color \in Colors :
          IF KingSquares(board, color) = {}
          THEN /\ ~isInCheck(board, color)
               /\ getKingPosition(board, color) = Position(-1, -1)
               /\ ~isValid(getKingPosition(board, color))
          ELSE /\ getKingPosition(board, color) \in KingSquares(board, color)
               /\ isInCheck(board, color)
                    = isUnderAttack(board, getKingPosition(board, color), Enemy(color))
    /\ \A from \in Squares \cup OffBoard, to \in ProbePositions \cup OffBoard, color \in Colors :
          (~isValid(from) \/ ~isValid(to) \/ At(from) = NoPiece) =>
              wouldBeInCheck(board, from, to, color) = [ret |-> TRUE, board |-> board]
    /\ \A pos \in OffBoard :
          /\ getPiece(board, pos) = NoPiece
          /\ getPieceRC(board, pos.row, pos.col) = NoPiece

\* the white king has just been captured while the black king is on the board
C24_Witness ==
    /\ JustMoved
    /\ KingSquares(board, "WHITE") = {}
    /\ KingSquares(board, "BLACK") # {}
    /\ ~playerInCheck["WHITE"]

\* C25: movePiece(from, to) returns false and changes nothing when from or to
\* is out of range or from is empty; otherwise it returns true, to holds the
\* piece that was on from with stored position to and hasMoved set, from is
\* empty, and every other square and the en-passant state are unchanged.
C25_MovePieceFrame ==
    \A from \in ProbePositions, to \in ProbePositions :
        LET mv == movePiece(board, from, to)
        IN  IF ~isValid(from) \/ ~isValid(to) \/ At(from) = NoPiece
            THEN ~mv.ok /\ mv.board = board
            ELSE /\ mv.ok
                 /\ getPiece(mv.board, to) = [At(from) EXCEPT !.position = to, !.hasMoved = TRUE]
                 /\ from # to => getPiece(mv.board, from) = NoPiece
                 /\ \A sq \in Squares \ {from, to} : getPiece(mv.board, sq) = At(sq)
                 /\ mv.board.enPassantTarget = board.enPassantTarget
                 /\ mv.board.enPassantAvailable = board.enPassantAvailable

\* the forward direction of a colour's pawns
Forward(color) == IF color = "WHITE" THEN -1 ELSE 1

\* the four cases in which a pawn standing on sq may go to the square to
PawnMayGo(sq, to) ==
    LET p == At(sq)
        dr == to.row - sq.row
        dc == to.col - sq.col
        dir == Forward(p.color)
    IN  \/ dc = 0 /\ dr = dir /\ At(to) = NoPiece
        \/ /\ dc = 0 /\ dr = 2 * dir /\ ~p.hasMoved
           /\ At(Position(sq.row + dir, sq.col)) = NoPiece /\ At(to) = NoPiece
        \/ Abs(dc) = 1 /\ dr = dir /\ At(to).color = Enemy(p.color)
        \/ Abs(dc) = 1 /\ dr = dir /\ board.enPassantAvailable /\ to = board.enPassantTarget

\* C26: Pawn::isValidMove(to) is true exactly for one step forward onto an
\* empty square, two steps forward by a pawn that has not moved over an empty
\* square onto an empty square, one step diagonally forward onto an opposing
\* piece, and one step diagonally forward onto the available en-passant
\* target; forward is rank decreasing for White, increasing for Black.
C26_PawnPattern ==
    \A sq \in Squares :
        At(sq).type = "Pawn" =>
            \A to \in Squares : PawnIsValidMove(At(sq), to, board) <=> PawnMayGo(sq, to)

\* a pawn of the player to move may capture en passant or step forward and
\* nothing else, and an unmoved pawn of that player is held up by a piece
\* right in front of it
C26_Witness ==
    /\ board.enPassantAvailable
    /\ \E sq \in Squares :
          /\ HoldsPiece(board, sq, "Pawn", currentPlayer) /\ At(sq).hasMoved
          /\ { to \in Squares : PawnIsValidMove(At(sq), to, board) }
               = { board.enPassantTarget, Position(sq.row + Forward(currentPlayer), sq.col) }
    /\ \E sq \in Squares :
          /\ HoldsPiece(board, sq, "Pawn", currentPlayer) /\ ~At(sq).hasMoved
          /\ At(Position(sq.row + Forward(currentPlayer), sq.col)) # NoPiece
          /\ At(Position(sq.row + 2 * Forward(currentPlayer), sq.col)) = NoPiece

\* a straight or diagonal line from sq to a different square to, every square
\* strictly between them empty and to not held by the colour
LineOpen(sq, to, color, straight, diagonal) ==
    LET dr == to.row - sq.row
        dc == to.col - sq.col
    IN  /\ sq # to
        /\ \/ straight /\ (dr = 0 \/ dc = 0)
           \/ diagonal /\ Abs(dr) = Abs(dc)
        /\ ClearBetween(board, sq, to)
        /\ At(to).color # color

\* C27: from every square and for every target, Queen::isValidMove equals
\* Rook::isValidMove or Bishop::isValidMove for a piece of the same colour;
\* Rook accepts exactly the same-rank or same-file targets and Bishop exactly
\* the equal-absolute-displacement targets, each with nonzero displacement,
\* all squares strictly between empty and the target not of the mover's
\* colour.
C27_QueenIsRookOrBishop ==
    \A sq \in Squares :
        At(sq) # NoPiece =>
            \A to \in Squares :
                LET color == At(sq).color
                    rook == RookIsValidMove(Piece("Rook", color, sq), to, board)
                    bishop == BishopIsValidMove(Piece("Bishop", color, sq), to, board)
                    queen == QueenIsValidMove(Piece("Queen", color, sq), to, board)
                IN  /\ queen <=> (rook \/ bishop)
                    /\ rook <=> LineOpen(sq, to, color, TRUE, FALSE)
                    /\ bishop <=> LineOpen(sq, to, color, FALSE, TRUE)

\* a queen away from home has a target along a file, a target along a
\* diagonal, and a target on a diagonal that a piece in between shuts off
C27_Witness ==
    \E sq \in Squares :
        /\ At(sq).type = "Queen" /\ At(sq).hasMoved
        /\ \E to \in Squares : to.col = sq.col /\ isValidMove(At(sq), to, board)
        /\ \E to \in Squares :
              /\ Abs(to.col - sq.col) = Abs(to.row - sq.row)
              /\ isValidMove(At(sq), to, board)
        /\ \E to \in Squares :
              /\ to # sq /\ Abs(to.col - sq.col) = Abs(to.row - sq.row)
              /\ At(to).color = Enemy(At(sq).color)
              /\ ~ClearBetween(board, sq, to)
              /\ ~isValidMove(At(sq), to, board)

\* a move request that takes a king further than one square
FarKingMove(m) ==
    LET from == parsePosition(m[1])
        to == parsePosition(m[2])
    IN  /\ isValid(from) /\ isValid(to)
        /\ At(from).type = "King"
        /\ (Abs(to.row - from.row) > 1 \/ Abs(to.col - from.col) > 1)

\* C28: Knight::isValidMove accepts exactly the targets at displacement (1,2)
\* or (2,1) not held by the knight's colour, whatever stands in between;
\* King::isValidMove accepts exactly the targets at most one square away on
\* each axis, other than its own square, not held by the king's colour; so
\* makeMove never accepts a king move of two squares and a king goes two
\* files only by castling.
C28_KnightAndKing ==
    /\ \A sq \in Squares :
          At(sq) # NoPiece =>
              \A to \in Squares :
                  LET color == At(sq).color
                      dr == Abs(to.row - sq.row)
                      dc == Abs(to.col - sq.col)
                  IN  /\ KnightIsValidMove(Piece("Knight", color, sq), to, board)
                          <=> ({dr, dc} = {1, 2} /\ At(to).color # color)
                      /\ KingIsValidMove(Piece("King", color, sq), to, board)
                          <=> (dr <= 1 /\ dc <= 1 /\ to # sq /\ At(to).color # color)
    /\ \A m \in MoveInputs(book) :
          FarKingMove(m) => makeMove(Game, m[1], m[2], ChQ).result # "true"
    /\ (At(lastPly.to).type = "King" /\ Abs(lastPly.to.col - lastPly.from.col) > 1)
          => JustCastled

\* White may castle kingside, and the king's step e1 g1 typed as a move is
\* turned down
C28_Witness ==
    /\ currentPlayer = "WHITE" /\ CastleIsDue(TRUE)
    /\ Mv("e", 1, "g", 1) \in MoveInputs(book)
    /\ FarKingMove(Mv("e", 1, "g", 1))
    /\ makeMove(Game, Sq("e", 1), Sq("g", 1), ChQ).result = "false"
    /\ handleCastling(Game, "kingside").result = "true"

\* the answers "y", "Y" and "yes" to a draw offer
Accepting == { <<121>>, <<89>>, <<121, 101, 115>> }

\* C29: resignation by the current player ends the game with the opponent
\* recorded as winner; a draw offer accepted by the opponent ends the game
\* with no winner; a declined draw offer or a cancelled quit leaves the
\* board, the en-passant state, gameOver, the winner and the current player
\* unchanged, so that the same player is asked to move again.
C29_QuitDialogue ==
    /\ ~gameOver =>
          \A choice \in MenuChoices, response \in DrawResponses :
              LET g == playTurnQuit(Game, choice, response)
              IN  CASE choice = <<49>> ->
                         /\ g.gameOver
                         /\ g.winner = playerName[Enemy(currentPlayer)]
                         /\ g.board = board /\ g.currentPlayer = currentPlayer
                    [] choice = <<50>> /\ response \in Accepting ->
                         /\ g.gameOver
                         /\ g.winner = NoWinner
                         /\ g.board = board /\ g.currentPlayer = currentPlayer
                    [] OTHER -> SameGame(g)
    /\ lastPly.op = "resign" =>
          gameOver /\ winner = playerName[Enemy(currentPlayer)]
    /\ lastPly.op = "draw" => gameOver /\ winner = NoWinner

\* Black has offered a draw after White's first ply and White has accepted
C29_Witness ==
    /\ lastPly.op = "draw" /\ plies = 1
    /\ currentPlayer = "BLACK"
    /\ gameOver /\ winner = NoWinner

\* the squares from which a pawn of the player to move may capture en passant
\* so that the player's king is not attacked in the position that results
EnPassantEscapes ==
    { from \in Squares :
        /\ HoldsPiece(board, from, "Pawn", currentPlayer)
        /\ isEnPassantMove(from, board.enPassantTarget, board)
        /\ isValidMove(At(from), board.enPassantTarget, board)
        /\ ~KingAttacked(performEnPassant(from, board.enPassantTarget, board),
                         currentPlayer) }

\* a pawn has just made a double step and gives check from where it landed
DoubleStepCheck ==
    /\ JustMoved /\ board.enPassantAvailable
    /\ At(lastPly.to).type = "Pawn"
    /\ \E k \in KingSquares(board, currentPlayer) : Threatens(board, lastPly.to, k)

\* the check can be ended by an en-passant capture and by nothing else
OnlyEnPassantEscapes ==
    /\ DoubleStepCheck
    /\ EnPassantEscapes # {}
    /\ \A from \in Squares, to \in Squares :
          (/\ At(from).color = currentPlayer
           /\ isValidMove(At(from), to, board)
           /\ ~KingAttacked(Played(board, from, to), currentPlayer))
              => (from \in EnPassantEscapes /\ to = board.enPassantTarget)

\* C30: a legal en-passant capture is judged for king safety on the position
\* that results from it, the passed pawn removed: when the player to move is
\* in check from a pawn that has just made a double step and capturing that
\* pawn en passant is the only way out of check, the game is not declared
\* over and the capture is accepted.
C30_EnPassantOutOfCheck ==
    OnlyEnPassantEscapes =>
        /\ ~gameOver
        /\ \A from \in EnPassantEscapes :
              makeMove(Game, Algebraic(from), Algebraic(board.enPassantTarget), ChQ).result
                  = "true"

\* White's king on h4 is checked by the pawn that went g7-g5, h5xg6 en passant
\* is the only way out, and the game has been declared won by Black
C30_Witness ==
    /\ OnlyEnPassantEscapes
    /\ currentPlayer = "WHITE"
    /\ lastPly.to = Position(3, 6)
    /\ EnPassantEscapes = { Position(3, 7) }
    /\ gameOver /\ winner = playerName["BLACK"]

(***************************************************************************)
(* C31 .. C37                                                              *)
(***************************************************************************)
\* the corner a castling token names for the player to move
CornerOf(t) == Position(HomeRow(currentPlayer), CornerCol(t \in KingSideTokens))

\* C31: a successful castle always relocates a rook of the castling player's
\* own colour: the rook and the king standing on their castled squares after
\* a castle belong to the player who castled, and no castle is accepted while
\* a piece of the opponent stands on the corner square.
C31_CastleOwnRook ==
    /\ JustCastled =>
          LET kingSide == lastPly.to.col = KingGoesTo(TRUE)
              row == lastPly.to.row
          IN  /\ HoldsPiece(board, lastPly.to, "King", Enemy(currentPlayer))
              /\ HoldsPiece(board, Position(row, RookGoesTo(kingSide)), "Rook",
                            Enemy(currentPlayer))
              /\ At(Position(row, CornerCol(kingSide))).color # currentPlayer
    /\ \A t \in CastleInputs :
          At(CornerOf(t)).color = Enemy(currentPlayer)
              => playTurnCastle(Game, t).result # "true"

\* a black pawn has just been promoted to a rook on h1, which so counts as an
\* unmoved rook, White's king is unmoved on e1 with f1 and g1 empty, and
\* White's O-O is turned down
C31_Witness ==
    /\ currentPlayer = "WHITE" /\ JustMoved
    /\ At(Position(7, 7)) = Piece("Rook", "BLACK", Position(7, 7))
    /\ At(Position(7, 4)) = Piece("King", "WHITE", Position(7, 4))
    /\ At(Position(7, 5)) = NoPiece /\ At(Position(7, 6)) = NoPiece
    /\ playTurnCastle(Game, <<79, 45, 79>>).result = "Cannot castle kingside!"

\* C32: whenever the terminal-state check after a ply declares the game over,
\* canCastle is false on both sides for the player to move; and whenever a
\* castle would be accepted, the enumeration of legal moves, which leaves
\* castling out, finds a move.
C32_NoCastleWhenOver ==
    /\ (gameOver /\ (JustMoved \/ JustCastled)) =>
          /\ ~canCastleKingSide(currentPlayer, board)
          /\ ~canCastleQueenSide(currentPlayer, board)
    /\ (canCastleKingSide(currentPlayer, board) \/ canCastleQueenSide(currentPlayer, board))
          => hasValidMoves(board, currentPlayer).ret

\* Black is mated by the queen on f7 with king and rook unmoved on e8 and h8
\* and f8, g8 empty
C32_Witness ==
    /\ gameOver /\ JustMoved /\ winner = playerName["WHITE"] /\ currentPlayer = "BLACK"
    /\ HoldsPiece(board, Position(1, 5), "Queen", "WHITE")
    /\ At(Position(0, 4)) = Piece("King", "BLACK", Position(0, 4))
    /\ At(Position(0, 7)) = Piece("Rook", "BLACK", Position(0, 7))
    /\ At(Position(0, 5)) = NoPiece /\ At(Position(0, 6)) = NoPiece

\* C33: whenever en passant is available, the target square is empty and
\* lies on row 2 or row 5, the square directly beyond it (row 3 resp. row 4,
\* same file) holds a pawn of the player who is not to move, and the square
\* directly before it (row 1 resp. row 6, same file) is empty.
C33_EnPassantTargetShape ==
    board.enPassantAvailable =>
        LET t == board.enPassantTarget
            dir == IF t.row = 2 THEN 1 ELSE -1
        IN  /\ isValid(t) /\ t.row \in {2, 5}
            /\ At(t) = NoPiece
            /\ HoldsPiece(board, Position(t.row + dir, t.col), "Pawn", Enemy(currentPlayer))
            /\ At(Position(t.row - dir, t.col)) = NoPiece
            /\ Enemy(currentPlayer) = (IF t.row = 2 THEN "BLACK" ELSE "WHITE")

\* Black has made a double step in the middle of a game and the target lies
\* on row 2
C33_Witness ==
    /\ board.enPassantAvailable /\ plies >= 4
    /\ board.enPassantTarget.row = 2
    /\ currentPlayer = "WHITE"
    /\ lastPly.to = Position(3, board.enPassantTarget.col)

\* the number of pieces of a colour on the board b
Count(b, color) == Cardinality({ sq \in Squares : getPiece(b, sq).color = color })

\* the ply from -> to of the player to move takes a piece: the target holds
\* an opposing piece, or a pawn leaves its file
Takes(from, to) ==
    \/ At(to).color = Enemy(currentPlayer)
    \/ At(from).type = "Pawn" /\ from.col # to.col

\* C34: each successful ply removes at most one piece and never one of the
\* mover's own colour: a non-capturing move, a castle and a promotion leave
\* the number of pieces of both colours unchanged, and a capture, en passant
\* included, reduces the opponent's number by exactly one.
C34_AtMostOneRemoved ==
    [][ plies' = plies + 1 =>
          /\ Count(board', currentPlayer) = Count(board, currentPlayer)
          /\ Count(board', Enemy(currentPlayer))
               = Count(board, Enemy(currentPlayer))
                 - (IF lastPly'.op = "move" /\ Takes(lastPly'.from, lastPly'.to)
                    THEN 1 ELSE 0) ]_vars

\* a pawn has just captured onto row 2 or row 5, the square it passed beside
\* is empty, and the side to move is one piece short
C34_Witness ==
    /\ JustMoved
    /\ HoldsPiece(board, lastPly.to, "Pawn", Enemy(currentPlayer))
    /\ lastPly.from.col # lastPly.to.col
    /\ lastPly.to.row \in {2, 5}
    /\ At(Position(lastPly.from.row, lastPly.to.col)) = NoPiece
    /\ At(Position(HomeRow(currentPlayer) + Forward(currentPlayer), lastPly.to.col)) = NoPiece
    /\ Count(board, currentPlayer) = 15
    /\ Count(board, Enemy(currentPlayer)) = 16

\* C35: after every successful ply each player's inCheck flag equals whether
\* that player's king is attacked on the board; in particular the flag of a
\* player who has just moved out of check is false.
C35_CheckFlagsCurrent ==
    (JustMoved \/ JustCastled) =>
        \A color \in Colors : playerInCheck[color] = KingAttacked(board, color)

\* the player who moved last was in check before the move and is not now
C35_Witness ==
    /\ JustMoved /\ ~gameOver
    /\ ~KingAttacked(board, Enemy(currentPlayer))
    /\ playerInCheck[Enemy(currentPlayer)]
    /\ At(lastPly.to).type = "King"

\* the row on which a colour's pawns start
PawnRow(color) == IF color = "WHITE" THEN 6 ELSE 1

\* a move request that takes a pawn two rows along its file
DoubleStepRequest(m) ==
    LET from == parsePosition(m[1])
        to == parsePosition(m[2])
    IN  /\ isValid(from) /\ isValid(to)
        /\ At(from).type = "Pawn"
        /\ from.col = to.col /\ Abs(to.row - from.row) = 2

\* C36: every pawn whose hasMoved flag is false stands on its colour's
\* starting row (6 for White, 1 for Black), and every pawn on its starting
\* row has the flag false; so a pawn double step is accepted only from the
\* starting row and only as that pawn's first move.
C36_UnmovedPawnsAtHome ==
    /\ \A sq \in Squares :
          At(sq).type = "Pawn" => (~At(sq).hasMoved <=> sq.row = PawnRow(At(sq).color))
    /\ \A m \in MoveInputs(book) :
          (DoubleStepRequest(m) /\ makeMove(Game, m[1], m[2], ChQ).result = "true")
              => /\ parsePosition(m[1]).row = PawnRow(currentPlayer)
                 /\ ~At(parsePosition(m[1])).hasMoved
    /\ (/\ JustMoved
        /\ At(lastPly.to).type = "Pawn"
        /\ Abs(lastPly.to.row - lastPly.from.row) = 2)
          => /\ lastPly.from.row = PawnRow(At(lastPly.to).color)
             /\ lastPly.from.col = lastPly.to.col

\* White's a-pawn has moved to a3, a4 and a5 are empty, and the double step
\* a3 a5 is turned down
C36_Witness ==
    /\ currentPlayer = "WHITE" /\ ~gameOver
    /\ At(Position(5, 0)) = [type |-> "Pawn", color |-> "WHITE",
                             position |-> Position(5, 0), hasMoved |-> TRUE]
    /\ At(Position(4, 0)) = NoPiece /\ At(Position(3, 0)) = NoPiece
    /\ Mv("a", 3, "a", 5) \in MoveInputs(book)
    /\ DoubleStepRequest(Mv("a", 3, "a", 5))
    /\ makeMove(Game, Sq("a", 3), Sq("a", 5), ChQ).result = "false"

\* the squares (row + k * rowDir, col + k * colDir), k >= 0, that lie on the
\* board: what the loop of Board::isPathClear still has before it
BoardAhead(row, col, rowDir, colDir) ==
    { s \in Squares :
        \E k \in 0 .. 7 + Abs(row) + Abs(col) :
            s.row = row + k * rowDir /\ s.col = col + k * colDir }

\* the loop condition of Board::isPathClear becomes false at some later step
TargetAhead(row, col, rowDir, colDir, to) ==
    \E k \in 0 .. Abs(to.row - row) + Abs(to.col - col) :
        to.row = row + k * rowDir /\ to.col = col + k * colDir

\* the walk has left the board for good without meeting its target: beyond
\* the edge isEmpty(row, col) is true on every square, so currentRow and
\* currentCol are stepped until one of them overflows, which is undefined.
\* A build whose int wraps round comes back along the same line from its
\* other end and answers false on the first occupied square of the board, or
\* walks for ever when the line is empty; another build ends with a fault.
OverflowOutcomes(b, row, col, rowDir, colDir) ==
    { "crash",
      IF \E s \in Squares :
             /\ (s.row - row) * rowDir = (s.col - col) * colDir
             /\ ~isEmptyRC(b, s.row, s.col)
      THEN "blocked" ELSE "never" }

\* the while loop of Board::isPathClear from the square (row, col): the set of
\* ways it can end, "clear" for true and "blocked" for false
RECURSIVE WalkOutcome(_, _, _, _, _, _)
WalkOutcome(b, row, col, rowDir, colDir, to) ==
    IF row = to.row /\ col = to.col THEN { "clear" }
    ELSE IF ~isEmptyRC(b, row, col) THEN { "blocked" }
    ELSE IF TargetAhead(row, col, rowDir, colDir, to)
            \/ BoardAhead(row + rowDir, col + colDir, rowDir, colDir) # {}
    THEN WalkOutcome(b, row + rowDir, col + colDir, rowDir, colDir, to)
    ELSE OverflowOutcomes(b, row, col, rowDir, colDir)

\* the squares the loop of Board::isPathClear tests on an empty board, up to
\* its target or to the square after which it has left the board for good
RECURSIVE WalkSquares(_, _, _, _, _)
WalkSquares(row, col, rowDir, colDir, to) ==
    IF row = to.row /\ col = to.col THEN {}
    ELSE IF TargetAhead(row, col, rowDir, colDir, to)
            \/ BoardAhead(row + rowDir, col + colDir, rowDir, colDir) # {}
    THEN { Position(row, col) }
             \cup WalkSquares(row + rowDir, col + colDir, rowDir, colDir, to)
    ELSE { Position(row, col) }

\* the ways Board::isPathClear(from, to) can end
pathOutcome(b, from, to) ==
    WalkOutcome(b, from.row + Sign(to.row - from.row), from.col + Sign(to.col - from.col),
                Sign(to.row - from.row), Sign(to.col - from.col), to)

pathSquares(from, to) ==
    WalkSquares(from.row + Sign(to.row - from.row), from.col + Sign(to.col - from.col),
                Sign(to.row - from.row), Sign(to.col - from.col), to)

\* PathCalls as it would be if the queen's pattern check walked the path
\* before looking at the shape of the move
PathCallsQueenUnguarded(p, to) ==
    IF p.type = "Queen" /\ p.position # to THEN { <<p.position, to>> } ELSE {}

\* the calls of Board::isPathClear that the pattern check of the piece p
\* makes for the target to: Rook, Bishop and Queen call it once, after their
\* tests of the shape of the move; Pawn, Knight and King never call it
PathCalls(p, to) ==
    LET rowDiff == Abs(to.row - p.position.row)
        colDiff == Abs(to.col - p.position.col)
    IN  CASE p.type = "Rook" ->
               IF p.position # to
                  /\ ~(p.position.row # to.row /\ p.position.col # to.col)
               THEN { <<p.position, to>> } ELSE {}
          [] p.type = "Bishop" ->
               IF p.position # to /\ rowDiff = colDiff
               THEN { <<p.position, to>> } ELSE {}
          [] p.type = "Queen" ->
               IF p.position # to
                  /\ ~(rowDiff # colDiff /\ p.position.row # to.row
                                         /\ p.position.col # to.col)
               THEN { <<p.position, to>> } ELSE {}
          [] OTHER -> {}

\* two different squares on one rank, one file or one diagonal
Aligned(a, z) ==
    /\ a # z
    /\ \/ a.row = z.row \/ a.col = z.col
       \/ Abs(a.row - z.row) = Abs(a.col - z.col)

\* the squares of the board strictly between two aligned squares
StrictlyBetween(a, z) ==
    { s \in Squares :
        /\ s # a /\ s # z
        /\ Aligned(a, s) /\ Aligned(s, z)
        /\ Sign(s.row - a.row) = Sign(z.row - a.row)
        /\ Sign(s.col - a.col) = Sign(z.col - a.col)
        /\ Sign(z.row - s.row) = Sign(z.row - a.row)
        /\ Sign(z.col - s.col) = Sign(z.col - a.col) }

\* C37: every pattern check terminates: isPathClear, whose walk can run off
\* the board and never meet its target for a pair of squares that is neither
\* on one line nor on one diagonal, is called by the Rook, Bishop and Queen
\* pattern checks on aligned pairs only, and on such pairs it tests only
\* in-range squares strictly between the endpoints and ends with an answer.
C37_PathWalkEnds ==
    \A sq \in Squares :
        At(sq) # NoPiece =>
            \A to \in Squares :
                /\ At(sq).type \in {"Pawn", "Knight", "King"} => PathCalls(At(sq), to) = {}
                /\ At(sq).type \in {"Rook", "Bishop", "Queen"} =>
                      (isValidMove(At(sq), to, board) <=>
                           \E c \in PathCalls(At(sq), to) :
                               /\ isPathClear(board, c[1], c[2])
                               /\ At(to).color # At(sq).color)
                /\ \A c \in PathCalls(At(sq), to) :
                      /\ Aligned(c[1], c[2])
                      /\ pathSquares(c[1], c[2]) = StrictlyBetween(c[1], c[2])
                      /\ pathOutcome(board, c[1], c[2]) \in { {"clear"}, {"blocked"} }
                      /\ isPathClear(board, c[1], c[2])
                           = (pathOutcome(board, c[1], c[2]) = {"clear"})

\* a queen away from home walks a clear path over three squares or more, is
\* blocked on another, and for a target off its lines walks no path; the walk
\* for that target would leave the board and run into the overflow
C37_Witness ==
    \E sq \in Squares :
        /\ At(sq).type = "Queen" /\ At(sq).hasMoved
        /\ \E to \in Squares :
              /\ PathCalls(At(sq), to) = { <<sq, to>> }
              /\ Cardinality(pathSquares(sq, to)) >= 3
              /\ pathOutcome(board, sq, to) = {"clear"}
        /\ \E to \in Squares :
              /\ PathCalls(At(sq), to) = { <<sq, to>> }
              /\ pathOutcome(board, sq, to) = {"blocked"}
        /\ \E to \in Squares :
              /\ PathCalls(At(sq), to) = {}
              /\ to # sq
              /\ "crash" \in pathOutcome(board, sq, to)

====
